---- MODULE Spec2Model ----
(***************************************************************************)
(* A model of backend/server.py: the path extractor jsonpath_get, the      *)
(* assertion engine eval_assertion, the report builder generate_junit_xml  *)
(* and the run lifecycle of the /test-run handler test_run.                *)
(*                                                                         *)
(* Python values are tagged records [t, v]:                                *)
(*   None  [t |-> "none", v |-> 0]       bool [t |-> "bool", v |-> TRUE]   *)
(*   int   [t |-> "int",  v |-> 3]       str  [t |-> "str",  v |-> chars]  *)
(*   float [t |-> "float", v |-> 3]      (integral floats only)            *)
(*   list  [t |-> "list", v |-> <<values>>]                                *)
(*   dict  [t |-> "dict", v |-> << <<key chars, value>>, ... >>]           *)
(* A text is a sequence of strings; a text that the program inspects       *)
(* character by character is a sequence of one-character strings.          *)
(* A function that can raise returns [exc, v]: exc = "none" and the value, *)
(* or the name of the exception it raised.                                 *)
(***************************************************************************)
EXTENDS Integers, Sequences, FiniteSets, TLC

\* ------------------------------------------------------------ Python values

PyNone == [t |-> "none", v |-> 0]
PyBool(b) == [t |-> "bool", v |-> b]
PyInt(n) == [t |-> "int", v |-> n]
PyFloat(n) == [t |-> "float", v |-> n]
PyStr(s) == [t |-> "str", v |-> s]
PyList(s) == [t |-> "list", v |-> s]
PyDict(s) == [t |-> "dict", v |-> s]

Ok(x) == [exc |-> "none", v |-> x]
Raise(e) == [exc |-> e, v |-> PyNone]

\* bool(x): Python truthiness.
Truthy(x) ==
  CASE x.t = "none" -> FALSE
    [] x.t = "bool" -> x.v
    [] x.t \in {"int", "float"} -> x.v # 0
    [] OTHER -> Len(x.v) > 0

IsNum(x) == x.t \in {"bool", "int", "float"}

NumOf(x) == IF x.t = "bool" THEN (IF x.v THEN 1 ELSE 0) ELSE x.v

\* The position of key k in the item list of a dict, 0 when it has none.
RECURSIVE KeyPos(_, _, _)
KeyPos(items, k, i) ==
  IF i > Len(items) THEN 0
  ELSE IF items[i][1] = k THEN i
  ELSE KeyPos(items, k, i + 1)

HasKey(d, k) == KeyPos(d.v, k, 1) # 0

\* d[k] for a key the dict holds.
Item(d, k) == d.v[KeyPos(d.v, k, 1)][2]

\* x == y of Python: numbers compare by value (True == 1), sequences element
\* by element, dicts key by key whatever their order, None only equals None.
RECURSIVE PyEq(_, _)
PyEq(x, y) ==
  IF IsNum(x) /\ IsNum(y) THEN NumOf(x) = NumOf(y)
  ELSE IF x.t # y.t THEN FALSE
  ELSE CASE x.t = "none" -> TRUE
         [] x.t = "str" -> x.v = y.v
         [] x.t = "list" ->
              /\ Len(x.v) = Len(y.v)
              /\ \A i \in 1..Len(x.v) : PyEq(x.v[i], y.v[i])
         [] x.t = "dict" ->
              /\ Len(x.v) = Len(y.v)
              /\ \A i \in 1..Len(x.v) :
                   /\ HasKey(y, x.v[i][1])
                   /\ PyEq(x.v[i][2], Item(y, x.v[i][1]))

\* ------------------------------------------------------------ texts

Lit(s) == <<s>>

Digits == <<"0", "1", "2", "3", "4", "5", "6", "7", "8", "9">>

RECURSIVE NatText(_)
NatText(n) ==
  IF n < 10 THEN <<Digits[n + 1]>>
  ELSE NatText(n \div 10) \o <<Digits[(n % 10) + 1]>>

IntText(n) == IF n < 0 THEN <<"-">> \o NatText(0 - n) ELSE NatText(n)

RECURSIVE Join(_, _)
Join(texts, sep) ==
  IF Len(texts) = 0 THEN <<>>
  ELSE IF Len(texts) = 1 THEN texts[1]
  ELSE texts[1] \o sep \o Join(Tail(texts), sep)

\* repr(x) and str(x) of Python, for texts without quotes, backslashes or
\* control characters: they differ on a str only.
RECURSIVE Repr(_)
Repr(x) ==
  CASE x.t = "none" -> <<"N", "o", "n", "e">>
    [] x.t = "bool" ->
         IF x.v THEN <<"T", "r", "u", "e">> ELSE <<"F", "a", "l", "s", "e">>
    [] x.t = "int" -> IntText(x.v)
    [] x.t = "float" -> IntText(x.v) \o <<".", "0">>
    [] x.t = "str" -> <<"'">> \o x.v \o <<"'">>
    [] x.t = "list" ->
         <<"[">> \o Join([i \in 1..Len(x.v) |-> Repr(x.v[i])], <<",", " ">>)
                 \o <<"]">>
    [] x.t = "dict" ->
         <<"{">> \o Join([i \in 1..Len(x.v) |->
                            <<"'">> \o x.v[i][1] \o <<"'", ":", " ">>
                               \o Repr(x.v[i][2])],
                         <<",", " ">>)
                 \o <<"}">>

Str(x) == IF x.t = "str" THEN x.v ELSE Repr(x)

\* needle in hay, for two texts.
IsSubstring(needle, hay) ==
  \E i \in 0..Len(hay) :
    /\ i + Len(needle) <= Len(hay)
    /\ \A j \in 1..Len(needle) : hay[i + j] = needle[j]

\* ------------------------------------------------------------ Python operations

\* x.get(k, default): only a dict has get.
Get(x, k, default) ==
  IF x.t # "dict" THEN Raise("AttributeError")
  ELSE IF HasKey(x, k) THEN Ok(Item(x, k))
  ELSE Ok(default)

\* for e in x: the elements of a list, the characters of a str, the keys of a
\* dict; nothing else is iterable.
Iter(x) ==
  CASE x.t = "list" -> [exc |-> "none", v |-> x.v]
    [] x.t = "str" -> [exc |-> "none", v |-> [i \in 1..Len(x.v) |-> PyStr(<<x.v[i]>>)]]
    [] x.t = "dict" -> [exc |-> "none", v |-> [i \in 1..Len(x.v) |-> PyStr(x.v[i][1])]]
    [] OTHER -> [exc |-> "TypeError", v |-> <<>>]

\* x[i] for an int i: negative i counts from the end of a list or str.
Index(x, i) ==
  CASE x.t \in {"list", "str"} ->
         IF i >= 0 /\ i < Len(x.v)
           THEN Ok(IF x.t = "list" THEN x.v[i + 1] ELSE PyStr(<<x.v[i + 1]>>))
         ELSE IF i < 0 /\ 0 - i <= Len(x.v)
           THEN Ok(IF x.t = "list" THEN x.v[Len(x.v) + i + 1]
                   ELSE PyStr(<<x.v[Len(x.v) + i + 1]>>))
         ELSE Raise("IndexError")
    [] x.t = "dict" -> Raise("KeyError")
    [] OTHER -> Raise("TypeError")

IsDigit(c) == \E d \in 1..10 : Digits[d] = c

DigitVal(c) == (CHOOSE d \in 1..10 : Digits[d] = c) - 1

RECURSIVE NatParse(_, _)
NatParse(s, acc) ==
  IF Len(s) = 0 THEN acc ELSE NatParse(Tail(s), acc * 10 + DigitVal(s[1]))

\* int(s) for a text of digits, "-", letters, brackets and dots: an optional
\* sign and at least one digit, anything else is a ValueError.
IntParse(s) ==
  LET neg == Len(s) > 0 /\ s[1] = "-"
      body == IF neg THEN Tail(s) ELSE s
  IN IF Len(body) > 0 /\ \A i \in 1..Len(body) : IsDigit(body[i])
       THEN Ok(IF neg THEN 0 - NatParse(body, 0) ELSE NatParse(body, 0))
       ELSE Raise("ValueError")

\* float(x): numbers as they are, a text as int(s) reads it (the texts of the
\* model hold no ".", exponent, "inf" or "nan"), anything else a TypeError.
Float(x) ==
  CASE IsNum(x) -> Ok(NumOf(x))
    [] x.t = "str" -> IntParse(x.v)
    [] OTHER -> Raise("TypeError")

\* needle in hay.
In(needle, hay) ==
  CASE hay.t = "str" ->
         IF needle.t = "str" THEN Ok(IsSubstring(needle.v, hay.v))
         ELSE Raise("TypeError")
    [] hay.t = "list" -> Ok(\E i \in 1..Len(hay.v) : PyEq(hay.v[i], needle))
    [] hay.t = "dict" ->
         IF needle.t \in {"list", "dict"} THEN Raise("TypeError")
         ELSE Ok(needle.t = "str" /\ HasKey(hay, needle.v))
    [] OTHER -> Raise("TypeError")

LowerLetters ==
  <<"a", "b", "c", "d", "e", "f", "g", "h", "i", "j", "k", "l", "m",
    "n", "o", "p", "q", "r", "s", "t", "u", "v", "w", "x", "y", "z">>

UpperLetters ==
  <<"A", "B", "C", "D", "E", "F", "G", "H", "I", "J", "K", "L", "M",
    "N", "O", "P", "Q", "R", "S", "T", "U", "V", "W", "X", "Y", "Z">>

UpperChar(c) ==
  IF \E i \in 1..26 : LowerLetters[i] = c
    THEN UpperLetters[CHOOSE i \in 1..26 : LowerLetters[i] = c]
    ELSE c

\* s.upper() of a text.
UpperText(s) == [i \in 1..Len(s) |-> UpperChar(s[i])]

\* x.upper(): only a str has upper.
Upper(x) ==
  IF x.t = "str" THEN Ok(PyStr(UpperText(x.v))) ELSE Raise("AttributeError")

\* x or "".
OrEmpty(x) == IF Truthy(x) THEN x ELSE PyStr(<<>>)

\* s.split(sep) of a text, for a one-character separator.
RECURSIVE SplitFrom(_, _, _)
SplitFrom(s, sep, cur) ==
  IF Len(s) = 0 THEN <<cur>>
  ELSE IF s[1] = sep THEN <<cur>> \o SplitFrom(Tail(s), sep, <<>>)
  ELSE SplitFrom(Tail(s), sep, Append(cur, s[1]))

Split(s, sep) == SplitFrom(s, sep, <<>>)

HasChar(s, c) == \E i \in 1..Len(s) : s[i] = c

\* s.index(c) of Python, counted from 1.
FirstPos(s, c) == CHOOSE i \in 1..Len(s) : s[i] = c /\ \A j \in 1..(i - 1) : s[j] # c

\* s.replace(c, "").
Without(s, c) == SelectSeq(s, LAMBDA ch : ch # c)

\* part.endswith("]") and "[" in part
IsBracketed(part) ==
  /\ Len(part) > 0
  /\ part[Len(part)] = "]"
  /\ HasChar(part, "[")

\* ------------------------------------------------------------ jsonpath_get

Cont(x) == [exc |-> "none", ret |-> FALSE, v |-> x]
RetNone == [exc |-> "none", ret |-> TRUE, v |-> PyNone]
StepRaise(e) == [exc |-> e, ret |-> FALSE, v |-> PyNone]

\* try: cur = <indexing>   except Exception: return None
OrNone(r) == IF r.exc # "none" THEN RetNone ELSE Cont(r.v)

\* try: cur = cur[int(text)]   except Exception: return None
TryIndexAt(cur, n) == IF n.exc # "none" THEN RetNone ELSE OrNone(Index(cur, n.v))

TryIndex(cur, text) == TryIndexAt(cur, IntParse(text))

\* The second index of a bracketed part applied to a list.
StepListSecond(first, idx) == IF first.ret THEN RetNone ELSE TryIndex(first.v, idx)

\* name, idx = part.split("["): a ValueError unless the part holds one "[";
\* the name indexes the list when there is one, then idx does.
StepListBracket(cur, pieces) ==
  IF Len(pieces) # 2 THEN StepRaise("ValueError")
  ELSE StepListSecond(IF Len(pieces[1]) > 0 THEN TryIndex(cur, pieces[1]) ELSE Cont(cur),
                      Without(pieces[2], "]"))

\* One part of the path applied to a list.
StepList(cur, part) ==
  IF IsBracketed(part) THEN StepListBracket(cur, Split(part, "["))
  ELSE TryIndex(cur, part)

\* key = part[: part.index("[")]; arr_index = int(part[part.index("[") + 1 : -1])
StepDictBracket(cur, key, arr_index) ==
  IF arr_index.exc # "none" THEN RetNone
  ELSE IF ~HasKey(cur, key) THEN RetNone
  ELSE OrNone(Index(Item(cur, key), arr_index.v))

\* One part of the path applied to a dict.
StepDict(cur, part) ==
  IF IsBracketed(part)
    THEN StepDictBracket(cur, SubSeq(part, 1, FirstPos(part, "[") - 1),
                         IntParse(SubSeq(part, FirstPos(part, "[") + 1, Len(part) - 1)))
    ELSE IF ~HasKey(cur, part) THEN RetNone
    ELSE Cont(Item(cur, part))

Step(cur, part) ==
  CASE cur.t = "list" -> StepList(cur, part)
    [] cur.t = "dict" -> StepDict(cur, part)
    [] OTHER -> RetNone

\* for part in parts[1:]
RECURSIVE Walk(_, _)
RECURSIVE WalkOn(_, _)
Walk(cur, parts) ==
  IF Len(parts) = 0 THEN Ok(cur) ELSE WalkOn(Step(cur, parts[1]), Tail(parts))

WalkOn(r, rest) ==
  IF r.exc # "none" THEN Raise(r.exc)
  ELSE IF r.ret THEN Ok(PyNone)
  ELSE Walk(r.v, rest)

\* [p for p in path.split('.') if p]
Parts(s) == SelectSeq(Split(s, "."), LAMBDA p : Len(p) > 0)

jsonpath_get(data, path) ==
  IF ~Truthy(path) THEN Ok(PyNone)
  ELSE IF path.t # "str" THEN Raise("AttributeError")
  ELSE IF path.v[1] # "$" THEN Ok(PyNone)
  ELSE Walk(data, Tail(Parts(path.v)))

\* ------------------------------------------------------------ eval_assertion

\* What the body of eval_assertion's try does: a (passed, message) pair, or
\* the exception it raised.
Result(passed, message) == [exc |-> "none", passed |-> passed, message |-> message]
Raised(e) == [exc |-> e, passed |-> FALSE, message |-> <<>>]

\* actual_types.index(e, idx), counted from 1; 0 for a ValueError.
RECURSIVE IndexFrom(_, _, _)
IndexFrom(actual_types, e, p) ==
  IF p > Len(actual_types) THEN 0
  ELSE IF PyEq(actual_types[p], e) THEN p
  ELSE IndexFrom(actual_types, e, p + 1)

\* A search that starts from the first node for every expected type.
RECURSIVE MatchPath_unordered(_, _, _, _)
MatchPath_unordered(actual_types, expected, k, idx) ==
  IF k > Len(expected) THEN Result(TRUE, Lit("Path contains expected sequence"))
  ELSE IF IndexFrom(actual_types, expected[k], 1) = 0
    THEN Result(FALSE, Lit("Missing node in path: ") \o Str(expected[k]))
    ELSE MatchPath_unordered(actual_types, expected, k + 1, idx)

\* for e in expected: pos = actual_types.index(e, idx); idx = pos + 1
RECURSIVE MatchPath(_, _, _, _)
MatchPath(actual_types, expected, k, idx) ==
  IF k > Len(expected) THEN Result(TRUE, Lit("Path contains expected sequence"))
  ELSE LET pos == IndexFrom(actual_types, expected[k], idx + 1)
       IN IF pos = 0
            THEN Result(FALSE, Lit("Missing node in path: ") \o Str(expected[k]))
            ELSE MatchPath(actual_types, expected, k + 1, pos)

EvalPathTaken(args, trace) ==
  LET expected == Get(args, <<"n", "o", "d", "e", "s">>, PyList(<<>>))
      nodes == Get(trace, <<"n", "o", "d", "e", "s">>, PyList(<<>>))
      ns == Iter(nodes.v)
      actual_types == [i \in 1..Len(ns.v) |-> Get(ns.v[i], <<"t", "y", "p", "e">>, PyNone).v]
      es == Iter(expected.v)
  IN IF expected.exc # "none" THEN Raised(expected.exc)
     ELSE IF nodes.exc # "none" THEN Raised(nodes.exc)
     ELSE IF ns.exc # "none" THEN Raised(ns.exc)
     ELSE IF \E i \in 1..Len(ns.v) : ns.v[i].t # "dict" THEN Raised("AttributeError")
     ELSE IF es.exc # "none" THEN Raised(es.exc)
     ELSE MatchPath(actual_types, es.v, 1, 0)

\* (not method or method == m) and (not url_contains or url_contains in u)
CallMatches(method, url_contains, m, u) ==
  IF ~(~Truthy(method) \/ PyEq(method, m)) THEN Ok(FALSE)
  ELSE IF ~Truthy(url_contains) THEN Ok(TRUE)
  ELSE In(url_contains, u)

\* A call whose method is compared as it is written, without upper().
CallOf_caseSensitive(call, cm, method, url_contains) ==
  IF cm.exc # "none" THEN Raise(cm.exc)
  ELSE CallMatches(method, url_contains, OrEmpty(cm.v),
                   OrEmpty(Get(call, <<"u", "r", "l">>, PyNone).v))

\* m = (call.get("method") or "").upper(); u = call.get("url") or ""
CallOf(call, cm, method, url_contains) ==
  IF cm.exc # "none" THEN Raise(cm.exc)
  ELSE IF Upper(OrEmpty(cm.v)).exc # "none" THEN Raise(Upper(OrEmpty(cm.v)).exc)
  ELSE CallMatches(method, url_contains, Upper(OrEmpty(cm.v)).v,
                   OrEmpty(Get(call, <<"u", "r", "l">>, PyNone).v))

\* for call in trace.get("httpOutgoing", []): found = True; break -- [exc, v]
\* with v = found.
RECURSIVE ScanCalls(_, _, _, _)
RECURSIVE ScanOn(_, _, _, _, _)
ScanCalls(calls, i, method, url_contains) ==
  IF i > Len(calls) THEN Ok(FALSE)
  ELSE ScanOn(CallOf(calls[i], Get(calls[i], <<"m", "e", "t", "h", "o", "d">>, PyNone), method, url_contains),
              calls, i, method, url_contains)

ScanOn(hit, calls, i, method, url_contains) ==
  IF hit.exc # "none" THEN Raise(hit.exc)
  ELSE IF hit.v THEN Ok(TRUE)
  ELSE ScanCalls(calls, i + 1, method, url_contains)

\* should_exist = args.get("exists", True) and the two returns.
HttpOutgoingResult(found, should_exist) ==
  IF found.exc # "none" THEN Raised(found.exc)
  ELSE IF Truthy(should_exist)
    THEN Result(found.v, IF found.v THEN Lit("Found matching outgoing call")
                         ELSE Lit("No matching outgoing call"))
    ELSE Result(~found.v, IF ~found.v THEN Lit("No outgoing call as expected")
                          ELSE Lit("Unexpected outgoing call found"))

EvalHttpOutgoing(args, trace) ==
  LET gm == Get(args, <<"m", "e", "t", "h", "o", "d">>, PyNone)
      method == Upper(OrEmpty(gm.v))
      url_contains == OrEmpty(Get(args, <<"u", "r", "l", "C", "o", "n", "t", "a", "i", "n", "s">>, PyNone).v)
      calls == Get(trace, <<"h", "t", "t", "p", "O", "u", "t", "g", "o", "i", "n", "g">>, PyList(<<>>))
      cs == Iter(calls.v)
  IN IF gm.exc # "none" THEN Raised(gm.exc)
     ELSE IF method.exc # "none" THEN Raised(method.exc)
     ELSE IF calls.exc # "none" THEN Raised(calls.exc)
     ELSE IF cs.exc # "none" THEN Raised(cs.exc)
     ELSE HttpOutgoingResult(ScanCalls(cs.v, 1, method.v, url_contains),
                             Get(args, <<"e", "x", "i", "s", "t", "s">>, PyBool(TRUE)).v)

PathOps ==
  << <<"e", "q">>, <<"n", "e", "q">>, <<"g", "t">>, <<"l", "t">>, <<"c", "o", "n", "t", "a", "i", "n", "s">>, <<"n", "o", "t", "C", "o", "n", "t", "a", "i", "n", "s">>, <<"b", "o", "d", "y", "C", "o", "n", "t", "a", "i", "n", "s">>>>

IsPathOp(op) == op.t = "str" /\ \E i \in 1..Len(PathOps) : PathOps[i] = op.v

EvalBodyContains(args, actual) ==
  LET needle == Str(Get(args, <<"c", "o", "n", "t", "a", "i", "n", "s">>, PyNone).v)
      hay == IF actual.t = "none" THEN <<>> ELSE Str(actual)
      ok == IsSubstring(needle, hay)
  IN Result(ok, IF ok THEN <<"'">> \o needle \o Lit("' in '") \o hay \o <<"'">>
                ELSE Lit("Expected '") \o needle \o Lit("' in '") \o hay \o <<"'">>)

EvalContains(args, actual) ==
  LET needle == Get(args, <<"v", "a", "l", "u", "e">>, PyNone).v
      hay == actual
      ok == In(needle, hay)
  IN IF hay.t \in {"list", "str"}
       THEN IF ok.exc # "none" THEN Raised(ok.exc)
            ELSE Result(ok.v, IF ok.v THEN Lit("contains ok")
                              ELSE Lit("Expected ") \o Str(needle) \o Lit(" in ") \o Str(hay))
       ELSE Result(FALSE, Lit("Actual not list/str: ") \o Str(hay))

EvalNotContains(args, actual) ==
  LET needle == Get(args, <<"v", "a", "l", "u", "e">>, PyNone).v
      hay == actual
      isin == In(needle, hay)
  IN IF hay.t \in {"list", "str"}
       THEN IF isin.exc # "none" THEN Raised(isin.exc)
            ELSE Result(~isin.v, IF ~isin.v THEN Lit("notContains ok")
                                 ELSE Lit("Did not expect ") \o Str(needle) \o Lit(" in ")
                                        \o Str(hay))
       ELSE Result(FALSE, Lit("Actual not list/str: ") \o Str(hay))

EvalEq(args, actual) ==
  LET expected == Get(args, <<"v", "a", "l", "u", "e">>, PyNone).v
      ok == PyEq(actual, expected)
  IN Result(ok, IF ok THEN Str(actual) \o Lit(" == ") \o Str(expected)
                ELSE Str(actual) \o Lit(" != ") \o Str(expected))

\* A neq that asks for a value to have been extracted.
EvalNeq_presentOnly(args, actual) ==
  Result(actual.t # "none" /\ ~PyEq(actual, Get(args, <<"v", "a", "l", "u", "e">>, PyNone).v),
         Lit("neq"))

EvalNeq(args, actual) ==
  LET expected == Get(args, <<"v", "a", "l", "u", "e">>, PyNone).v
      ok == ~PyEq(actual, expected)
  IN Result(ok, IF ok THEN Str(actual) \o Lit(" != ") \o Str(expected)
                ELSE Str(actual) \o Lit(" == ") \o Str(expected))

\* gt and lt that pass on equal operands.
EvalCompare_orEqual(op, args, actual) ==
  IF Float(actual).exc # "none" \/ Float(Get(args, <<"v", "a", "l", "u", "e">>, PyNone).v).exc # "none"
    THEN Result(FALSE, Lit("Non-numeric compare: "))
  ELSE IF op.v = <<"g", "t">>
    THEN Result(Float(actual).v >= Float(Get(args, <<"v", "a", "l", "u", "e">>, PyNone).v).v, Lit("gt"))
    ELSE Result(Float(actual).v <= Float(Get(args, <<"v", "a", "l", "u", "e">>, PyNone).v).v, Lit("lt"))

EvalCompare(op, args, actual) ==
  LET expected == Get(args, <<"v", "a", "l", "u", "e">>, PyNone).v
      a == Float(actual)
      b == Float(expected)
      fa == Str(PyFloat(a.v))
      fb == Str(PyFloat(b.v))
  IN IF a.exc # "none" \/ b.exc # "none"
       THEN Result(FALSE, Lit("Non-numeric compare: ") \o Str(actual) \o <<",", " ">>
                            \o Str(expected))
     ELSE IF op.v = <<"g", "t">>
       THEN Result(a.v > b.v, IF a.v > b.v THEN fa \o Lit(" > ") \o fb
                              ELSE fa \o Lit(" !> ") \o fb)
       ELSE Result(a.v < b.v, IF a.v < b.v THEN fa \o Lit(" < ") \o fb
                              ELSE fa \o Lit(" !< ") \o fb)

\* The operators that read a path, once the path is extracted.
EvalExtracted(op, args, got) ==
  IF got.exc # "none" THEN Raised(got.exc)
  ELSE CASE op.v = <<"b", "o", "d", "y", "C", "o", "n", "t", "a", "i", "n", "s">> -> EvalBodyContains(args, got.v)
         [] op.v = <<"c", "o", "n", "t", "a", "i", "n", "s">> -> EvalContains(args, got.v)
         [] op.v = <<"n", "o", "t", "C", "o", "n", "t", "a", "i", "n", "s">> -> EvalNotContains(args, got.v)
         [] op.v = <<"e", "q">> -> EvalEq(args, got.v)
         [] op.v = <<"n", "e", "q">> -> EvalNeq(args, got.v)
         [] OTHER -> EvalCompare(op, args, got.v)

\* jp = args.get("jsonpath"); actual = jsonpath_get(trace, jp) if jp else None
EvalPathOp(op, args, trace) ==
  LET jp == Get(args, <<"j", "s", "o", "n", "p", "a", "t", "h">>, PyNone)
  IN IF jp.exc # "none" THEN Raised(jp.exc)
     ELSE EvalExtracted(op, args,
                        IF Truthy(jp.v) THEN jsonpath_get(trace, jp.v) ELSE Ok(PyNone))

\* The body of the try of eval_assertion.
EvalTry(op, args, trace) ==
  IF op.t = "str" /\ op.v = <<"p", "a", "t", "h", "T", "a", "k", "e", "n">> THEN EvalPathTaken(args, trace)
  ELSE IF op.t = "str" /\ op.v = <<"h", "t", "t", "p", "O", "u", "t", "g", "o", "i", "n", "g">> THEN EvalHttpOutgoing(args, trace)
  ELSE IF IsPathOp(op) THEN EvalPathOp(op, args, trace)
  ELSE Result(FALSE, Lit("Unknown operator: ") \o Str(op))

\* An eval_assertion without its except clause.
Catch_reraise(op, r) == r

\* except Exception as e: return False, f"Exception evaluating {op}: {str(e)}"
\* (the text of the exception is kept as its name).
Catch(op, r) ==
  IF r.exc # "none"
    THEN Result(FALSE, Lit("Exception evaluating ") \o Str(op) \o <<":", " ">> \o Lit(r.exc))
    ELSE r

eval_assertion(operator, args, trace) == Catch(operator, EvalTry(operator, args, trace))

\* ------------------------------------------------------------ generate_junit_xml

\* A document in which only the results that did not pass have a testcase.
RECURSIVE FailedOnly(_)
FailedOnly(rs) ==
  IF rs = <<>> THEN <<>>
  ELSE (IF rs[1].passed THEN <<>>
        ELSE <<[name |-> rs[1].operator \o <<":">> \o rs[1].assertion_id,
                failure |-> <<[message |-> rs[1].message, text |-> rs[1].message]>>]>>)
       \o FailedOnly(Tail(rs))

generate_junit_xml_failedOnly(run) ==
  [name |-> Lit("assertions"),
   tests |-> IntText(Len(run.results)),
   cases |-> FailedOnly(run.results)]

\* The testsuite element: its tests attribute and one testcase per result, a
\* failing one with a failure child holding the message as attribute and text.
generate_junit_xml(run) ==
  [name |-> Lit("assertions"),
   tests |-> IntText(Len(run.results)),
   cases |-> [k \in 1..Len(run.results) |->
               [name |-> run.results[k].operator \o <<":">> \o run.results[k].assertion_id,
                failure |-> IF run.results[k].passed THEN <<>>
                            ELSE <<[message |-> run.results[k].message,
                                    text |-> run.results[k].message]>>]]]

\* ------------------------------------------------------------ N8nClient

\* What one request to the n8n server comes back with: a response with a
\* status code, or no response (the request raises).
Status(code) == [raises |-> FALSE, status |-> code]
NoResponse == [raises |-> TRUE, status |-> 0]
CreateAnswers == {Status(200), Status(201), Status(404), Status(500), NoResponse}
DeleteAnswers == {Status(200), Status(204), Status(404), Status(500), NoResponse}

\* The id n8n gives the workflow it creates.
WorkflowId == <<"w", "1">>

\* The bodies n8n answers a create request with: the workflow under its id,
\* wrapped in data, under _id, without any id, a list, and text that is no JSON.
NotJson == [t |-> "notjson", v |-> 0]
CreateBodies ==
  << PyDict(<< << <<"i", "d">>, PyStr(WorkflowId)>>, << <<"n", "a", "m", "e">>, PyStr(<<"A", "V", "C">>)>> >>),
     PyDict(<< << <<"d", "a", "t", "a">>, PyDict(<< << <<"i", "d">>, PyStr(WorkflowId)>> >>)>> >>),
     PyDict(<< << <<"_", "i", "d">>, PyStr(WorkflowId)>> >>),
     PyDict(<< << <<"n", "a", "m", "e">>, PyStr(<<"A", "V", "C">>)>> >>),
     PyList(<<>>),
     NotJson >>

\* Whether the requests of create_workflow made n8n create the workflow: the
\* first POST, or the POST to /rest after a 404, was answered 200 or 201.
Accepted(a1, a2) ==
  \/ a1.status \in {200, 201}
  \/ a1.status = 404 /\ a2.status \in {200, 201}

\* create_workflow, given what its POST to /api/v1 (a1) and its POST to /rest
\* (a2, sent after a 404 only) come back with, and the body of the last response.
create_workflow(a1, a2, body) ==
  LET resp == IF a1.status = 404 THEN a2 ELSE a1
      data == body
  IN IF a1.raises \/ resp.raises THEN Raise("ConnectionError")
     ELSE IF resp.status \notin {200, 201} THEN Raise("HTTPException")
     ELSE IF body.t = "notjson" THEN Raise("JSONDecodeError")
     ELSE IF data.t = "dict" /\ HasKey(data, <<"i", "d">>) THEN Ok(data)
     ELSE IF data.t = "dict" /\ HasKey(data, <<"d", "a", "t", "a">>)
             /\ Item(data, <<"d", "a", "t", "a">>).t = "dict"
       THEN Ok(Item(data, <<"d", "a", "t", "a">>))
     ELSE Ok(data)

\* str(wf.get("id") or wf.get("_id") or wf.get("data", {}).get("id"))
ExtractWfId(wf) ==
  LET a == Get(wf, <<"i", "d">>, PyNone)
      b == Get(wf, <<"_", "i", "d">>, PyNone)
      c == Get(wf, <<"d", "a", "t", "a">>, PyDict(<<>>))
      d == Get(c.v, <<"i", "d">>, PyNone)
  IN IF a.exc # "none" THEN Raise(a.exc)
     ELSE IF Truthy(a.v) THEN Ok(PyStr(Str(a.v)))
     ELSE IF Truthy(b.v) THEN Ok(PyStr(Str(b.v)))
     ELSE IF d.exc # "none" THEN Raise(d.exc)
     ELSE Ok(PyStr(Str(d.v)))

\* delete_workflow, given what its DELETE to /api/v1 (a1) and to /rest (a2,
\* sent after a 404 only) come back with: it raises when a request does, and
\* ignores every status.
delete_workflow(a1, a2) ==
  IF a1.raises THEN Raise("ConnectionError")
  ELSE IF a1.status = 404 /\ a2.raises THEN Raise("ConnectionError")
  ELSE Ok(PyNone)

\* Whether the requests of delete_workflow made n8n delete the workflow.
Deleted(a1, a2) ==
  \/ a1.status \in {200, 204}
  \/ a1.status = 404 /\ a2.status \in {200, 204}

\* ------------------------------------------------------------ the documents of the database

\* The largest number of assertions drawn from the catalogue into one pack.
MaxPack == 2

ContractId == <<"c", "1">>
RunId == <<"r", "1">>

\* The fixture pack design stores, and one whose fixture list is empty.
DesignedFixture ==
  PyDict(<< << <<"m", "e", "t", "h", "o", "d">>, PyStr(<<"P", "O", "S", "T">>)>>,
            << <<"p", "a", "t", "h">>, PyStr(<<"/", "m", "o", "c", "k", "/", "t", "e", "s", "t", "/", "u", "p", "p", "e", "r", "c", "a", "s", "e">>)>>,
            << <<"b", "o", "d", "y">>, PyDict(<< << <<"m", "s", "g">>, PyStr(<<"h", "e", "l", "l", "o">>)>> >>)>> >>)

FixturePackDoc(fixtures) ==
  PyDict(<< << <<"w", "o", "r", "k", "f", "l", "o", "w", "_", "c", "o", "n", "t", "r", "a", "c", "t", "_", "i", "d">>, PyStr(ContractId)>>,
            << <<"f", "i", "x", "t", "u", "r", "e", "s">>, PyList(fixtures)>> >>)

FixturePacks == << FixturePackDoc(<<DesignedFixture>>), FixturePackDoc(<<>>) >>

\* assertion.model_dump(): the record of one assertion.
AssertionDoc(id, operator, args) ==
  PyDict(<< << <<"i", "d">>, id>>, << <<"o", "p", "e", "r", "a", "t", "o", "r">>, operator>>, << <<"a", "r", "g", "s">>, args>>,
            << <<"d", "e", "s", "c", "r", "i", "p", "t", "i", "o", "n">>, PyNone>> >>)

UpperPath == <<"$", ".", "r", "e", "s", "p", "o", "n", "s", "e", ".", "b", "o", "d", "y", ".", "u", "p", "p", "e", "r">>

\* The three assertions design stores.
DesignedAssertions ==
  << AssertionDoc(PyStr(<<"d", "1">>), PyStr(<<"p", "a", "t", "h", "T", "a", "k", "e", "n">>),
       PyDict(<< << <<"n", "o", "d", "e", "s">>, PyList(<<PyStr(<<"W", "e", "b", "h", "o", "o", "k">>), PyStr(<<"F", "u", "n", "c", "t", "i", "o", "n">>),
                                       PyStr(<<"R", "e", "s", "p", "o", "n", "d">>)>>)>> >>)),
     AssertionDoc(PyStr(<<"d", "2">>), PyStr(<<"e", "q">>),
       PyDict(<< << <<"j", "s", "o", "n", "p", "a", "t", "h">>, PyStr(UpperPath)>>,
                 << <<"v", "a", "l", "u", "e">>, PyStr(<<"H", "E", "L", "L", "O">>)>> >>)),
     AssertionDoc(PyStr(<<"d", "3">>), PyStr(<<"b", "o", "d", "y", "C", "o", "n", "t", "a", "i", "n", "s">>),
       PyDict(<< << <<"j", "s", "o", "n", "p", "a", "t", "h">>, PyStr(UpperPath)>>,
                 << <<"c", "o", "n", "t", "a", "i", "n", "s">>, PyStr(<<"H", "E", "L">>)>> >>)) >>

\* Other assertions a pack can hold, as operator and args: one that passes on
\* the designed run, one that fails on it, an operator outside the catalogue,
\* an operand that is no number, and a list of nodes that is no list.
Catalogue ==
  << [operator |-> PyStr(<<"e", "q">>),
      args |-> PyDict(<< << <<"j", "s", "o", "n", "p", "a", "t", "h">>, PyStr(UpperPath)>>,
                         << <<"v", "a", "l", "u", "e">>, PyStr(<<"H", "E", "L", "L", "O">>)>> >>)],
     [operator |-> PyStr(<<"e", "q">>),
      args |-> PyDict(<< << <<"j", "s", "o", "n", "p", "a", "t", "h">>, PyStr(UpperPath)>>,
                         << <<"v", "a", "l", "u", "e">>, PyStr(<<"W", "O", "R", "L", "D">>)>> >>)],
     [operator |-> PyStr(<<"m", "a", "t", "c", "h", "e", "s">>), args |-> PyDict(<<>>)],
     [operator |-> PyStr(<<"g", "t">>),
      args |-> PyDict(<< << <<"j", "s", "o", "n", "p", "a", "t", "h">>, PyStr(UpperPath)>>,
                         << <<"v", "a", "l", "u", "e">>, PyStr(<<"a", "b", "c">>)>> >>)],
     [operator |-> PyStr(<<"p", "a", "t", "h", "T", "a", "k", "e", "n">>),
      args |-> PyDict(<< << <<"n", "o", "d", "e", "s">>, PyInt(5)>> >>)] >>

CatalogueDoc(c, id) == AssertionDoc(id, Catalogue[c].operator, Catalogue[c].args)

AssertionPackDoc(assertions) ==
  PyDict(<< << <<"w", "o", "r", "k", "f", "l", "o", "w", "_", "c", "o", "n", "t", "r", "a", "c", "t", "_", "i", "d">>, PyStr(ContractId)>>,
            << <<"a", "s", "s", "e", "r", "t", "i", "o", "n", "s">>, PyList(assertions)>> >>)

\* What the webhook of the temporary workflow comes back with: no response,
\* the uppercased message, a body that is no JSON, and an error of n8n.
WebhookAnswers ==
  << [raises |-> TRUE, status |-> 0, body |-> NotJson],
     [raises |-> FALSE, status |-> 200,
      body |-> PyDict(<< << <<"u", "p", "p", "e", "r">>, PyStr(<<"H", "E", "L", "L", "O">>)>> >>)],
     [raises |-> FALSE, status |-> 200, body |-> NotJson],
     [raises |-> FALSE, status |-> 404,
      body |-> PyDict(<< << <<"m", "e", "s", "s", "a", "g", "e">>, PyStr(<<"n", "o", "t", " ", "r", "e", "g", "i", "s", "t", "e", "r", "e", "d">>)>> >>)] >>

\* ------------------------------------------------------------ test_run: state

VARIABLES
  pc,           \* the statement of test_run that runs next
  payload,      \* the request: [workflow_contract_id, use_n8n]
  env,          \* whether N8N_BASE_URL and N8N_API_KEY are both set
  wc, fp, ap,   \* what the three find_one calls of test_run return
  run,          \* the Run object of the handler
  db_runs,      \* the record of the run in db.runs
  db_artifacts, \* the records of db.artifacts
  files,        \* the JUnit documents written under artifacts/
  use_n8n,      \* local use_n8n
  wf,           \* local wf: what create_workflow returned
  wf_id,        \* local wf_id
  trace,        \* local trace
  results,      \* local results
  next,         \* the position of the for loop in ap["assertions"]
  exit,         \* how the try statement is left once its finally has run
  response,     \* what the caller of test_run gets
  n8n,          \* the ids of the workflows that exist on the n8n server
  calls,        \* the requests made to n8n and to the webhook, in order
  cleanup,      \* what the cleanup of the finally clause came to
  statuses,     \* every value run.status has had, in order
  raised_by,    \* the statement whose exception left test_run, if any
  call,         \* a function applied on its own: its name and arguments
  returned,     \* what that function returned
  invocations,  \* the locals of each of two concurrent test_run invocations
  shared        \* what the two invocations share: n8n and db.runs

\* The variables no step of test_run changes: its inputs, and the function
\* applied on its own, and the state of the two concurrent invocations.
fixed == <<payload, env, wc, fp, ap, call, returned, invocations, shared>>

vars ==
  <<pc, fixed, run, db_runs, db_artifacts, files, use_n8n, wf, wf_id, trace, results,
    next, exit, response, n8n, calls, cleanup, statuses, raised_by>>

\* A local variable that is not bound yet.
Unbound == [t |-> "unbound", v |-> 0]

\* datetime.utcnow(): an instant in microseconds, on a whole millisecond or
\* not. finished_at holds <<>> for None and <<instant>> for a datetime;
\* started_at is only marked as set.
UtcNow == {5000, 5678}

\* The document MongoDB keeps of run.model_dump(), as find_one gives it back:
\* a BSON datetime counts milliseconds, the microseconds below are dropped.
Document(r) ==
  [r EXCEPT !.finished_at = [k \in 1..Len(r.finished_at) |->
                               (r.finished_at[k] \div 1000) * 1000]]

\* No Run object, and no record of it.
NoRun ==
  [id |-> <<>>, workflow_contract_id |-> <<>>, status |-> "none",
   started_at |-> "None", finished_at |-> <<>>, results |-> <<>>,
   junit_path |-> "None"]

\* Run(workflow_contract_id=..., status="QUEUED")
NewRun(workflow_contract_id) ==
  [id |-> RunId, workflow_contract_id |-> workflow_contract_id, status |-> "QUEUED",
   started_at |-> "set", finished_at |-> <<>>, results |-> <<>>,
   junit_path |-> "None"]

NoResponseYet == [kind |-> "none", run |-> NoRun]

\* The packs of the model: the designed one, and every list of at most MaxPack
\* records of the catalogue, the k-th with id "a<k>".
PackOf(n, choice) ==
  [k \in 1..n |-> CatalogueDoc(choice[k], PyStr(<<"a">> \o IntText(k)))]

InitInputs(designed_fp, designed_ap, n, choice) ==
  /\ wc = TRUE
  /\ fp = FixturePacks[IF designed_fp THEN 1 ELSE 2]
  /\ ap = IF designed_ap THEN AssertionPackDoc(DesignedAssertions)
          ELSE AssertionPackDoc(PackOf(n, choice))

\* A request for a contract that design has stored, or one that test_run
\* rejects: no contract id, an unknown contract, a contract without its packs.
Init ==
  /\ pc = "lookup"
  /\ env \in BOOLEAN
  /\ \/ /\ payload \in [workflow_contract_id : {ContractId}, use_n8n : BOOLEAN]
        /\ \E designed_fp \in BOOLEAN, designed_ap \in BOOLEAN, n \in 0..MaxPack :
             \E choice \in [1..n -> 1..Len(Catalogue)] :
               /\ designed_ap => n = 0
               /\ InitInputs(designed_fp, designed_ap, n, choice)
     \/ /\ payload \in [workflow_contract_id : {<<>>, ContractId}, use_n8n : {FALSE}]
        /\ \/ wc = FALSE /\ fp = PyNone /\ ap = PyNone
           \/ wc = TRUE /\ fp = PyNone /\ ap = AssertionPackDoc(DesignedAssertions)
           \/ wc = TRUE /\ fp = FixturePacks[1] /\ ap = PyNone
  /\ run = NoRun
  /\ db_runs = NoRun
  /\ db_artifacts = <<>>
  /\ files = <<>>
  /\ use_n8n = FALSE
  /\ wf = Unbound
  /\ wf_id = Unbound
  /\ trace = Unbound
  /\ results = <<>>
  /\ next = 1
  /\ exit = "none"
  /\ response = NoResponseYet
  /\ n8n = {}
  /\ calls = <<>>
  /\ cleanup = "none"
  /\ statuses = <<>>
  /\ raised_by = "none"
  /\ call = <<>>
  /\ returned = Unbound
  /\ invocations = <<>>
  /\ shared = <<>>

\* ------------------------------------------------------------ test_run: steps

\* run.status = s
SetStatus(r, s) == [r EXCEPT !.status = s]

\* An exception that nothing in test_run catches: it reaches the caller.
Escapes(statement) ==
  /\ pc' = "done"
  /\ response' = [kind |-> "exception", run |-> NoRun]
  /\ raised_by' = statement

\* An exception raised inside the try: control goes to the except clause.
Caught(statement) ==
  /\ pc' = "except"
  /\ raised_by' = raised_by
  /\ response' = response

\* The checks and lookups before the Run is created: an HTTPException 400 or
\* 404 answers a request without contract id, contract or packs.
Lookup ==
  /\ pc = "lookup"
  /\ IF Len(payload.workflow_contract_id) = 0 \/ ~wc \/ ~Truthy(fp) \/ ~Truthy(ap)
       THEN /\ pc' = "done"
            /\ response' = [kind |-> "http_error", run |-> NoRun]
       ELSE /\ pc' = "create"
            /\ response' = response
  /\ UNCHANGED <<fixed, cleanup, run, db_runs, db_artifacts, files, use_n8n,
                 wf, wf_id, trace, results, next, exit, n8n, calls, statuses, raised_by>>

\* run = Run(workflow_contract_id=payload.workflow_contract_id, status="QUEUED")
CreateRun ==
  /\ pc = "create"
  /\ run' = NewRun(payload.workflow_contract_id)
  /\ statuses' = <<"QUEUED">>
  /\ pc' = "insert"
  /\ UNCHANGED <<fixed, cleanup, db_runs, db_artifacts, files, use_n8n, wf,
                 wf_id, trace, results, next, exit, response, n8n, calls, raised_by>>

\* await db.runs.insert_one(run.model_dump()): the database stores the
\* record, or the call raises.
InsertRun ==
  /\ pc = "insert"
  /\ \/ /\ db_runs' = Document(run)
        /\ pc' = "provisioning"
        /\ UNCHANGED <<response, raised_by>>
     \/ /\ Escapes("db.runs.insert_one")
        /\ UNCHANGED db_runs
  /\ UNCHANGED <<fixed, cleanup, run, db_artifacts, files, use_n8n, wf,
                 wf_id, trace, results, next, exit, n8n, calls, statuses>>

\* A test_run that goes to n8n whenever the request asks for it.
Provision_ignoresEnv ==
  /\ pc = "provisioning"
  /\ run' = [run EXCEPT !.status = "PROVISIONING"]
  /\ statuses' = Append(statuses, "PROVISIONING")
  /\ use_n8n' = payload.use_n8n
  /\ pc' = "try"
  /\ UNCHANGED <<fixed, cleanup, db_runs, db_artifacts, files, wf, wf_id,
                 trace, results, next, exit, response, n8n, calls, raised_by>>

\* run.status = "PROVISIONING"; use_n8n = bool(payload.use_n8n) and bool(...)
Provision ==
  /\ pc = "provisioning"
  /\ run' = SetStatus(run, "PROVISIONING")
  /\ statuses' = Append(statuses, "PROVISIONING")
  /\ use_n8n' = (payload.use_n8n /\ env)
  /\ pc' = "try"
  /\ UNCHANGED <<fixed, cleanup, db_runs, db_artifacts, files, wf, wf_id,
                 trace, results, next, exit, response, n8n, calls, raised_by>>

\* wf = client.create_workflow(...): n8n answers the POST requests; the
\* workflow exists from the moment a POST is answered 200 or 201.
CreateWorkflow ==
  /\ pc = "try" /\ use_n8n
  /\ \E a1 \in CreateAnswers, a2 \in CreateAnswers, b \in 1..Len(CreateBodies) :
       LET r == create_workflow(a1, a2, CreateBodies[b])
       IN /\ n8n' = IF Accepted(a1, a2) THEN n8n \cup {WorkflowId} ELSE n8n
          /\ calls' = Append(calls, <<"create",
                                      IF Accepted(a1, a2) THEN WorkflowId ELSE <<>> >>)
          /\ IF r.exc = "none"
               THEN /\ wf' = r.v
                    /\ pc' = "bind"
                    /\ UNCHANGED <<response, raised_by>>
               ELSE /\ wf' = wf
                    /\ Caught("create_workflow")
  /\ UNCHANGED <<fixed, cleanup, run, db_runs, db_artifacts, files, use_n8n,
                 wf_id, trace, results, next, exit, statuses>>

\* wf_id = str(wf.get("id") or ...); run.status = "EXECUTING"
BindWorkflowId ==
  /\ pc = "bind"
  /\ LET r == ExtractWfId(wf)
     IN IF r.exc = "none"
          THEN /\ wf_id' = r.v
               /\ run' = SetStatus(run, "EXECUTING")
               /\ statuses' = Append(statuses, "EXECUTING")
               /\ pc' = "webhook"
               /\ UNCHANGED <<response, raised_by>>
          ELSE /\ Caught("wf.get")
               /\ UNCHANGED <<wf_id, run, statuses>>
  /\ UNCHANGED <<fixed, cleanup, db_runs, db_artifacts, files, use_n8n, wf,
                 trace, results, next, exit, n8n, calls>>

\* fixture = fp["fixtures"][0]; body = fixture.get("body", {})
FixtureBody(pack) ==
  LET fixture == Index(Item(pack, <<"f", "i", "x", "t", "u", "r", "e", "s">>), 0)
      body == Get(fixture.v, <<"b", "o", "d", "y">>, PyDict(<<>>))
  IN IF ~HasKey(pack, <<"f", "i", "x", "t", "u", "r", "e", "s">>) THEN Raise("KeyError")
     ELSE IF fixture.exc # "none" THEN Raise(fixture.exc)
     ELSE body

\* The trace test_run builds: the three nodes, no outgoing call, the response.
TraceOf(status, body) ==
  LET node(id, type) ==
        PyDict(<< << <<"i", "d">>, PyStr(id)>>, << <<"t", "y", "p", "e">>, PyStr(type)>>,
                  << <<"s", "t", "a", "t", "u", "s">>, PyStr(<<"c", "o", "m", "p", "l", "e", "t", "e", "d">>)>> >>)
  IN PyDict(<< << <<"n", "o", "d", "e", "s">>, PyList(<<node(<<"w", "e", "b", "h", "o", "o", "k">>, <<"W", "e", "b", "h", "o", "o", "k">>),
                                    node(<<"f", "u", "n", "c", "t", "i", "o", "n">>, <<"F", "u", "n", "c", "t", "i", "o", "n">>),
                                    node(<<"r", "e", "s", "p", "o", "n", "d">>, <<"R", "e", "s", "p", "o", "n", "d">>)>>)>>,
               << <<"h", "t", "t", "p", "O", "u", "t", "g", "o", "i", "n", "g">>, PyList(<<>>)>>,
               << <<"r", "e", "s", "p", "o", "n", "s", "e">>, PyDict(<< << <<"s", "t", "a", "t", "u", "s">>, PyInt(status)>>,
                                         << <<"b", "o", "d", "y">>, body>> >>)>> >>)

\* A mock execution that echoes msg as it is.
MockTrace_echo(pack) ==
  IF FixtureBody(pack).exc # "none" THEN Raise(FixtureBody(pack).exc)
  ELSE Ok(TraceOf(200, PyDict(<< << <<"u", "p", "p", "e", "r">>,
                                    PyStr(Str(Get(FixtureBody(pack).v, <<"m", "s", "g">>,
                                                  PyStr(<<>>)).v)) >> >>)))

\* The mock execution: msg = str(body.get("msg", "")); upper = msg.upper()
MockTrace(pack) ==
  LET body == FixtureBody(pack)
      msg == Get(body.v, <<"m", "s", "g">>, PyStr(<<>>))
      upper == UpperText(Str(msg.v))
  IN IF body.exc # "none" THEN Raise(body.exc)
     ELSE IF msg.exc # "none" THEN Raise(msg.exc)
     ELSE Ok(TraceOf(200, PyDict(<< << <<"u", "p", "p", "e", "r">>, PyStr(upper)>> >>)))

\* The trace of a real execution: resp.json(), or {} when the body is no JSON.
WebhookTrace(answer) ==
  TraceOf(answer.status, IF answer.body.t = "notjson" THEN PyDict(<<>>) ELSE answer.body)

\* The webhook call of the n8n path: the fixture lookup, requests.post, and
\* the trace built from the response.
CallWebhook ==
  /\ pc = "webhook"
  /\ LET body == FixtureBody(fp)
     IN IF body.exc # "none"
          THEN /\ Caught("fixture")
               /\ UNCHANGED <<trace, exit, calls>>
          ELSE \E w \in 1..Len(WebhookAnswers) :
                 /\ calls' = Append(calls, <<"webhook", <<>>>>)
                 /\ IF WebhookAnswers[w].raises
                      THEN /\ Caught("requests.post")
                           /\ UNCHANGED <<trace, exit>>
                      ELSE /\ trace' = WebhookTrace(WebhookAnswers[w])
                           /\ exit' = "normal"
                           /\ pc' = "finally"
                           /\ UNCHANGED <<response, raised_by>>
  /\ UNCHANGED <<fixed, cleanup, run, db_runs, db_artifacts, files, use_n8n,
                 wf, wf_id, results, next, n8n, statuses>>

\* else: run.status = "EXECUTING"
MockBegin ==
  /\ pc = "try" /\ ~use_n8n
  /\ run' = SetStatus(run, "EXECUTING")
  /\ statuses' = Append(statuses, "EXECUTING")
  /\ pc' = "mock"
  /\ UNCHANGED <<fixed, cleanup, db_runs, db_artifacts, files, use_n8n, wf,
                 wf_id, trace, results, next, exit, response, n8n, calls, raised_by>>

\* The mock execution of the only fixture.
MockExecute ==
  /\ pc = "mock"
  /\ LET r == MockTrace(fp)
     IN IF r.exc = "none"
          THEN /\ trace' = r.v
               /\ exit' = "normal"
               /\ pc' = "finally"
               /\ UNCHANGED <<response, raised_by>>
          ELSE /\ Caught("fixture")
               /\ UNCHANGED <<trace, exit>>
  /\ UNCHANGED <<fixed, cleanup, run, db_runs, db_artifacts, files, use_n8n,
                 wf, wf_id, results, next, n8n, calls, statuses>>

\* An except clause that leaves finished_at as it is.
Fail_unfinished(r, now) == [r EXCEPT !.status = "FAIL"]

\* An except clause that also sets run.junit_path.
Fail_withReport(r, now) ==
  [r EXCEPT !.status = "FAIL", !.finished_at = <<now>>, !.junit_path = "set"]

\* run.status = "FAIL"; run.finished_at = datetime.utcnow()
Fail(r, now) == [r EXCEPT !.status = "FAIL", !.finished_at = <<now>>]

\* except Exception: the run fails, is stored and returned; update_one can
\* raise, and the return or the exception waits for the finally clause.
Except ==
  /\ pc = "except"
  /\ \E now \in UtcNow : run' = Fail(run, now)
  /\ statuses' = Append(statuses, "FAIL")
  /\ \/ /\ db_runs' = Document(run')
        /\ exit' = "return"
        /\ UNCHANGED raised_by
     \/ /\ exit' = "raise"
        /\ raised_by' = "db.runs.update_one"
        /\ UNCHANGED db_runs
  /\ pc' = "finally"
  /\ UNCHANGED <<fixed, cleanup, db_artifacts, files, use_n8n, wf, wf_id,
                 trace, results, next, response, n8n, calls>>

\* A finally clause without the except Exception: pass around the cleanup.
AfterCleanup_propagates(cleanup_exc, pending) ==
  IF cleanup_exc # "none" THEN "raise" ELSE pending

\* try: ... delete_workflow ... except Exception: pass -- whatever the
\* cleanup raised, the try statement is left the way it was going to be.
AfterCleanup(cleanup_exc, pending) == pending

\* An except clause without its return: test_run goes on to the assertions.
Leave_fallthrough(how, statement) ==
  CASE how \in {"normal", "return"} ->
         /\ pc' = "asserting"
         /\ UNCHANGED <<response, raised_by>>
    [] how = "raise" ->
         /\ pc' = "done"
         /\ response' = [kind |-> "exception", run |-> NoRun]
         /\ raised_by' = statement

\* How test_run goes on after the finally clause.
Leave(how, statement) ==
  CASE how = "normal" ->
         /\ pc' = "asserting"
         /\ UNCHANGED <<response, raised_by>>
    [] how = "return" ->
         /\ pc' = "done"
         /\ response' = [kind |-> "run", run |-> run]
         /\ UNCHANGED raised_by
    [] how = "raise" ->
         /\ pc' = "done"
         /\ response' = [kind |-> "exception", run |-> NoRun]
         /\ raised_by' = statement

\* What the cleanup came to, for a DELETE that was sent.
Cleanup(a1, a2) ==
  IF delete_workflow(a1, a2).exc # "none" THEN "raised"
  ELSE IF Deleted(a1, a2) THEN "deleted"
  ELSE "refused"

\* finally: if use_n8n: client.delete_workflow(wf_id). An unbound wf_id is a
\* NameError before any request is sent. n8n answers a DELETE with 200 or 204
\* only for a workflow it has, and has it no longer afterwards.
Finally ==
  /\ pc = "finally"
  /\ IF ~use_n8n
       THEN /\ Leave(exit, raised_by)
            /\ cleanup' = "skipped"
            /\ UNCHANGED <<n8n, calls>>
       ELSE IF wf_id = Unbound
         THEN /\ Leave(AfterCleanup("NameError", exit),
                       IF AfterCleanup("NameError", exit) = exit THEN raised_by
                       ELSE "delete_workflow")
              /\ cleanup' = "unbound"
              /\ UNCHANGED <<n8n, calls>>
         ELSE \E a1 \in DeleteAnswers, a2 \in DeleteAnswers :
                /\ Deleted(a1, a2) => wf_id.v \in n8n
                /\ calls' = Append(calls, <<"delete", wf_id.v>>)
                /\ n8n' = IF Deleted(a1, a2) THEN n8n \ {wf_id.v} ELSE n8n
                /\ cleanup' = Cleanup(a1, a2)
                /\ Leave(AfterCleanup(delete_workflow(a1, a2).exc, exit),
                         IF AfterCleanup(delete_workflow(a1, a2).exc, exit) = exit
                           THEN raised_by ELSE "delete_workflow")
  /\ exit' = "none"
  /\ UNCHANGED <<fixed, run, db_runs, db_artifacts, files, use_n8n,
                 wf, wf_id, trace, results, next, statuses>>

\* ap["assertions"]
Assertions == Item(ap, <<"a", "s", "s", "e", "r", "t", "i", "o", "n", "s">>).v

\* run.status = "ASSERTING"; results = []
BeginAsserting ==
  /\ pc = "asserting"
  /\ run' = SetStatus(run, "ASSERTING")
  /\ statuses' = Append(statuses, "ASSERTING")
  /\ results' = <<>>
  /\ next' = 1
  /\ pc' = "loop"
  /\ UNCHANGED <<fixed, cleanup, db_runs, db_artifacts, files, use_n8n, wf,
                 wf_id, trace, exit, response, n8n, calls, raised_by>>

\* AssertionResult(assertion_id=..., operator=..., passed=ok, message=message):
\* the model validates that assertion_id and operator are str.
AssertionResult(assertion_id, operator, passed, message) ==
  IF assertion_id.t # "str" \/ operator.t # "str" THEN Raise("ValidationError")
  ELSE Ok([assertion_id |-> assertion_id.v, operator |-> operator.v,
           passed |-> passed, message |-> message])

\* What one turn of the for loop comes to: the AssertionResult to append, or
\* the exception and the call that raised it.
Turn(result) ==
  IF result.exc # "none" THEN [exc |-> result.exc, by |-> "AssertionResult", v |-> <<>>]
  ELSE [exc |-> "none", by |-> "", v |-> <<result.v>>]

TurnOf(a, operator, r) ==
  IF r.exc # "none" THEN [exc |-> r.exc, by |-> "eval_assertion", v |-> <<>>]
  ELSE Turn(AssertionResult(Get(a, <<"i", "d">>, PyNone).v, operator, r.passed, r.message))

\* ok, message = eval_assertion(a.get("operator"), a.get("args", {}), trace)
\* results.append(AssertionResult(assertion_id=a.get("id"), ...))
LoopBody(a, tr) ==
  IF a.t # "dict" THEN [exc |-> "AttributeError", by |-> "a.get", v |-> <<>>]
  ELSE TurnOf(a, Get(a, <<"o", "p", "e", "r", "a", "t", "o", "r">>, PyNone).v,
              eval_assertion(Get(a, <<"o", "p", "e", "r", "a", "t", "o", "r">>, PyNone).v,
                             Get(a, <<"a", "r", "g", "s">>, PyDict(<<>>)).v, tr))

\* A for loop that breaks at the first result that did not pass.
Appended_break(turn) ==
  IF turn.exc # "none"
    THEN Escapes(turn.by) /\ UNCHANGED <<results, next>>
    ELSE /\ results' = results \o turn.v
         /\ next' = IF turn.v[1].passed THEN next + 1 ELSE Len(Assertions) + 1
         /\ pc' = "loop"
         /\ UNCHANGED <<response, raised_by>>

\* The effect of one turn: an exception leaves test_run, a result is appended.
Appended(turn) ==
  IF turn.exc # "none"
    THEN Escapes(turn.by) /\ UNCHANGED <<results, next>>
    ELSE /\ results' = results \o turn.v
         /\ next' = next + 1
         /\ pc' = "loop"
         /\ UNCHANGED <<response, raised_by>>

\* One turn of the for loop over ap["assertions"].
EvalNext ==
  /\ pc = "loop" /\ next <= Len(Assertions)
  /\ Appended(LoopBody(Assertions[next], trace))
  /\ UNCHANGED <<fixed, cleanup, run, db_runs, db_artifacts, files, use_n8n,
                 wf, wf_id, trace, exit, n8n, calls, statuses>>

\* any(r.passed for r in results) in the place of all(...).
AllPass_any(rs) == \E k \in 1..Len(rs) : rs[k].passed

\* A verdict that asks for one result at least.
AllPass_nonempty(rs) == rs # <<>> /\ \A k \in 1..Len(rs) : rs[k].passed

\* all(r.passed for r in results)
AllPass(rs) == \A k \in 1..Len(rs) : rs[k].passed

\* A run that is finished without its results being stored in it.
Finish_noresults(r, rs, now) ==
  [r EXCEPT !.status = IF \A k \in 1..Len(rs) : rs[k].passed THEN "PASS" ELSE "FAIL",
            !.finished_at = <<now>>]

\* run.results = results; run.status = "PASS" if all_pass else "FAIL";
\* run.finished_at = datetime.utcnow()
Finish(r, rs, now) ==
  [r EXCEPT !.results = rs,
            !.status = IF AllPass(rs) THEN "PASS" ELSE "FAIL",
            !.finished_at = <<now>>]

\* The verdict, once the for loop is over.
Verdict ==
  /\ pc = "loop" /\ next > Len(Assertions)
  /\ \E now \in UtcNow : run' = Finish(run, results, now)
  /\ statuses' = Append(statuses, run'.status)
  /\ pc' = "junit"
  /\ UNCHANGED <<fixed, cleanup, db_runs, db_artifacts, files, use_n8n, wf,
                 wf_id, trace, results, next, exit, response, n8n, calls, raised_by>>

\* The JUnit document is generated and written to artifacts/<run.id>.xml, and
\* run.junit_path set; making the directory or writing the file can raise.
WriteJunit ==
  /\ pc = "junit"
  /\ \/ /\ files' = Append(files, [path |-> run.id, content |-> generate_junit_xml(run)])
        /\ run' = [run EXCEPT !.junit_path = "set"]
        /\ pc' = "persist"
        /\ UNCHANGED <<response, raised_by>>
     \/ /\ Escapes("open")
        /\ UNCHANGED <<files, run>>
  /\ UNCHANGED <<fixed, cleanup, db_runs, db_artifacts, use_n8n, wf, wf_id,
                 trace, results, next, exit, n8n, calls, statuses>>

\* await db.runs.update_one({"id": run.id}, {"$set": run.model_dump()})
PersistRun ==
  /\ pc = "persist"
  /\ \/ /\ db_runs' = Document(run)
        /\ pc' = "artifact"
        /\ UNCHANGED <<response, raised_by>>
     \/ /\ Escapes("db.runs.update_one")
        /\ UNCHANGED db_runs
  /\ UNCHANGED <<fixed, cleanup, run, db_artifacts, files, use_n8n, wf,
                 wf_id, trace, results, next, exit, n8n, calls, statuses>>

\* artifact = Artifact(run_id=run.id, kind="junit", ...); insert_one
InsertArtifact ==
  /\ pc = "artifact"
  /\ \/ /\ db_artifacts' = Append(db_artifacts, [run_id |-> run.id, kind |-> "junit"])
        /\ pc' = "return"
        /\ UNCHANGED <<response, raised_by>>
     \/ /\ Escapes("db.artifacts.insert_one")
        /\ UNCHANGED db_artifacts
  /\ UNCHANGED <<fixed, cleanup, run, db_runs, files, use_n8n, wf, wf_id,
                 trace, results, next, exit, n8n, calls, statuses>>

\* return TestRunResponse(run=run)
Return ==
  /\ pc = "return"
  /\ response' = [kind |-> "run", run |-> run]
  /\ pc' = "done"
  /\ UNCHANGED <<fixed, cleanup, run, db_runs, db_artifacts, files, use_n8n,
                 wf, wf_id, trace, results, next, exit, n8n, calls, statuses, raised_by>>

Next ==
  \/ Lookup
  \/ CreateRun
  \/ InsertRun
  \/ Provision
  \/ CreateWorkflow
  \/ BindWorkflowId
  \/ CallWebhook
  \/ MockBegin
  \/ MockExecute
  \/ Except
  \/ Finally
  \/ BeginAsserting
  \/ EvalNext
  \/ Verdict
  \/ WriteJunit
  \/ PersistRun
  \/ InsertArtifact
  \/ Return

Spec == Init /\ [][Next]_vars

\* ------------------------------------------------------------ properties of test_run

\* The run has had status ASSERTING.
WasAsserting == \E k \in 1..Len(statuses) : statuses[k] = "ASSERTING"

\* The verdict has been struck: the run is PASS or FAIL by way of ASSERTING.
Struck == run.status \in {"PASS", "FAIL"} /\ WasAsserting

\* test_run is over and its try statement was left by an exception.
TryFailed ==
  /\ pc = "done"
  /\ \E k \in 1..Len(statuses) : statuses[k] = "PROVISIONING"
  /\ trace = Unbound

\* The steps the status of a run may take.
Advances ==
  { <<"QUEUED", "PROVISIONING">>, <<"PROVISIONING", "EXECUTING">>,
    <<"EXECUTING", "ASSERTING">>, <<"ASSERTING", "PASS">>, <<"ASSERTING", "FAIL">>,
    <<"PROVISIONING", "FAIL">>, <<"EXECUTING", "FAIL">> }

\* C1: the status of a Run starts as QUEUED and only ever advances along
\* QUEUED -> PROVISIONING -> EXECUTING -> ASSERTING -> {PASS, FAIL}, with the
\* shortcuts PROVISIONING -> FAIL and EXECUTING -> FAIL; nothing follows PASS
\* or FAIL. statuses holds every value run.status was given, in order.
C1_StatusAdvances ==
  /\ run.status = IF statuses = <<>> THEN "none" ELSE statuses[Len(statuses)]
  /\ statuses # <<>> => statuses[1] = "QUEUED"
  /\ \A k \in 1..(Len(statuses) - 1) : <<statuses[k], statuses[k + 1]>> \in Advances

\* A run that failed while EXECUTING and was returned.
C1_Witness ==
  /\ pc = "done"
  /\ response.kind = "run"
  /\ statuses = <<"QUEUED", "PROVISIONING", "EXECUTING", "FAIL">>

\* C2 as the specification states it: results is non-empty and as long as the
\* pack if and only if the status is PASS or FAIL, and empty while the status
\* is QUEUED, PROVISIONING or EXECUTING.
C2_Original ==
  run.status # "none" =>
    /\ (run.results # <<>> /\ Len(run.results) = Len(Assertions))
         <=> run.status \in {"PASS", "FAIL"}
    /\ run.status \in {"QUEUED", "PROVISIONING", "EXECUTING"} => run.results = <<>>

\* C2: once the verdict is struck (PASS, or FAIL by way of ASSERTING) results
\* is as long as the pack, which may be empty; in every other state of a Run
\* (QUEUED, PROVISIONING, EXECUTING, ASSERTING, and FAIL reached from
\* PROVISIONING or EXECUTING) results is empty.
C2_Amended ==
  run.status # "none" =>
    /\ Struck => Len(run.results) = Len(Assertions)
    /\ ~Struck => run.results = <<>>

\* A run of a pack that is not empty fails before ASSERTING: FAIL, no results.
C2_Witness ==
  /\ pc = "done"
  /\ run.status = "FAIL" /\ ~WasAsserting
  /\ Len(Assertions) > 0
  /\ run.results = <<>>

\* A run of the empty pack passes without a result.
C2_WitnessEmptyPack ==
  /\ pc = "done"
  /\ run.status = "PASS"
  /\ Len(Assertions) = 0

\* C3: when the try statement of test_run is left by an exception, the run is
\* FAIL without ever having been ASSERTING, with no results, no junit_path, no
\* artifact and finished_at set, and that run is stored in db.runs and
\* returned.
C3_FailedRunStoredAndReturned ==
  TryFailed =>
    /\ run.status = "FAIL" /\ ~WasAsserting
    /\ run.results = <<>> /\ run.junit_path = "None" /\ run.finished_at # <<>>
    /\ db_artifacts = <<>> /\ files = <<>>
    /\ db_runs = Document(run)
    /\ response = [kind |-> "run", run |-> run]

\* C4: when test_run is over and n8n accepted the create request, exactly one
\* delete_workflow call was made for the workflow that was created.
C4_ReleasedOnce ==
  (pc = "done" /\ \E k \in 1..Len(calls) : calls[k] = <<"create", WorkflowId>>)
    => Cardinality({k \in 1..Len(calls) : calls[k] = <<"delete", WorkflowId>>}) = 1

\* C5: whatever the cleanup of the finally clause came to, no exception of it
\* reaches the caller, and the outcome is the one execution and assertions
\* determine: after a failed execution the run is FAIL without results and is
\* what test_run returns; after a successful one the run goes on through
\* ASSERTING, and its verdict and results are those of the pack on the trace.
C5_ReleaseFailureKeepsOutcome ==
  /\ raised_by # "delete_workflow"
  /\ cleanup # "none" =>
       IF trace = Unbound
         THEN /\ pc = "done"
              /\ run.status = "FAIL" /\ run.results = <<>>
              /\ response.kind = "run" => response.run = run
              /\ response.kind = "exception" => raised_by = "db.runs.update_one"
         ELSE /\ run.status \in {"EXECUTING", "ASSERTING", "PASS", "FAIL"}
              /\ run.status \in {"PASS", "FAIL"} =>
                   /\ WasAsserting
                   /\ Len(run.results) = Len(Assertions)
                   /\ \A k \in 1..Len(run.results) :
                        run.results[k] = LoopBody(Assertions[k], trace).v[1]
                   /\ run.status = "PASS" <=>
                        \A k \in 1..Len(run.results) : run.results[k].passed
              /\ response.kind = "run" =>
                   response.run = run /\ run.status \in {"PASS", "FAIL"}

\* delete_workflow raised and the run that passed is returned as PASS.
C5_Witness ==
  /\ cleanup = "raised"
  /\ response.kind = "run"
  /\ response.run.status = "PASS"
  /\ response.run.results # <<>>

\* delete_workflow came back with an error status after a failed execution,
\* and the FAIL run is returned.
C5_WitnessRefused ==
  /\ cleanup = "refused"
  /\ trace = Unbound
  /\ response.kind = "run"
  /\ response.run.status = "FAIL"

\* C6: once the Run is created no exception reaches the caller of test_run,
\* which ends by returning the Run.
C6_NothingEscapes ==
  run.status # "none" =>
    /\ response.kind # "exception"
    /\ pc = "done" => response.kind = "run"

\* C7: once the verdict is struck, the status is PASS if and only if every
\* result of run.results passed, and FAIL otherwise; so is the run returned.
C7_PassIffAllPassed ==
  /\ Struck =>
       (run.status = "PASS" <=> \A k \in 1..Len(run.results) : run.results[k].passed)
  /\ (response.kind = "run" /\ WasAsserting) =>
       /\ response.run.status \in {"PASS", "FAIL"}
       /\ response.run.status = "PASS" <=>
            \A k \in 1..Len(response.run.results) : response.run.results[k].passed

\* A returned run with a result that passed and one that did not: FAIL.
C7_Witness ==
  /\ response.kind = "run" /\ WasAsserting
  /\ response.run.status = "FAIL"
  /\ \E k \in 1..Len(response.run.results) : response.run.results[k].passed
  /\ \E k \in 1..Len(response.run.results) : ~response.run.results[k].passed

\* The id and the operator of the k-th assertion of the pack.
IdOf(k) == Item(Assertions[k], <<"i", "d">>).v
OperatorOf(k) == Item(Assertions[k], <<"o", "p", "e", "r", "a", "t", "o", "r">>).v

\* C8: in the for loop the results so far are those of the assertions before
\* the position of the loop, one each and in order; when the verdict is
\* struck run.results is as long as the pack, and results[i] has the id and
\* the operator of assertions[i].
C8_EveryAssertionOnceInOrder ==
  /\ pc = "loop" =>
       /\ Len(results) = next - 1
       /\ \A i \in 1..Len(results) :
            results[i].assertion_id = IdOf(i) /\ results[i].operator = OperatorOf(i)
  /\ Struck =>
       /\ Len(run.results) = Len(Assertions)
       /\ \A i \in 1..Len(run.results) :
            /\ run.results[i].assertion_id = IdOf(i)
            /\ run.results[i].operator = OperatorOf(i)

\* The verdict is struck on a pack whose first assertion failed, the ones
\* after it evaluated all the same.
C8_Witness ==
  /\ Struck
  /\ Len(run.results) >= 2
  /\ ~run.results[1].passed

C9_WitnessNoReport ==
  /\ response.kind = "run" /\ ~WasAsserting
  /\ response.run.junit_path = "None"
  /\ files = <<>> /\ db_artifacts = <<>>

\* ------------------------------------------------------------ eval_assertion on its own

\* Operators eval_assertion is called with: the nine of the catalogue, a name
\* outside it, the empty name, and values that are no str.
EvalOperators ==
  << PyStr(<<"p", "a", "t", "h", "T", "a", "k", "e", "n">>), PyStr(<<"h", "t", "t", "p", "O", "u", "t", "g", "o", "i", "n", "g">>), PyStr(<<"b", "o", "d", "y", "C", "o", "n", "t", "a", "i", "n", "s">>),
     PyStr(<<"c", "o", "n", "t", "a", "i", "n", "s">>), PyStr(<<"n", "o", "t", "C", "o", "n", "t", "a", "i", "n", "s">>), PyStr(<<"e", "q">>), PyStr(<<"n", "e", "q">>),
     PyStr(<<"g", "t">>), PyStr(<<"l", "t">>), PyStr(<<"m", "a", "t", "c", "h", "e", "s">>), PyStr(<<>>), PyNone, PyInt(7) >>

\* The names of the catalogue.
KnownOperators ==
  { <<"p", "a", "t", "h", "T", "a", "k", "e", "n">>, <<"h", "t", "t", "p", "O", "u", "t", "g", "o", "i", "n", "g">>, <<"b", "o", "d", "y", "C", "o", "n", "t", "a", "i", "n", "s">>, <<"c", "o", "n", "t", "a", "i", "n", "s">>, <<"n", "o", "t", "C", "o", "n", "t", "a", "i", "n", "s">>,
    <<"e", "q">>, <<"n", "e", "q">>, <<"g", "t">>, <<"l", "t">> }

\* Arguments: well formed ones for each operator, and malformed ones: missing
\* keys, values of the wrong type, operands that are no numbers, a path whose
\* segment has two brackets, and arguments that are no mapping.
EvalArgs ==
  << PyDict(<<>>),
     PyDict(<< <<<<"j", "s", "o", "n", "p", "a", "t", "h">>, PyStr(UpperPath)>>, <<<<"v", "a", "l", "u", "e">>, PyStr(<<"H", "E", "L", "L", "O">>)>> >>),
     PyDict(<< <<<<"j", "s", "o", "n", "p", "a", "t", "h">>, PyStr(UpperPath)>>, <<<<"v", "a", "l", "u", "e">>, PyInt(3)>> >>),
     PyDict(<< <<<<"j", "s", "o", "n", "p", "a", "t", "h">>, PyStr(UpperPath)>>, <<<<"c", "o", "n", "t", "a", "i", "n", "s">>, PyStr(<<"H", "E", "L">>)>> >>),
     PyDict(<< <<<<"j", "s", "o", "n", "p", "a", "t", "h">>, PyStr(<<"$", ".", "r", "e", "s", "p", "o", "n", "s", "e", ".", "s", "t", "a", "t", "u", "s">>)>>, <<<<"v", "a", "l", "u", "e">>, PyInt(100)>> >>),
     PyDict(<< <<<<"j", "s", "o", "n", "p", "a", "t", "h">>, PyStr(<<"$", ".", "r", "e", "s", "p", "o", "n", "s", "e", ".", "s", "t", "a", "t", "u", "s">>)>>, <<<<"v", "a", "l", "u", "e">>, PyStr(<<"a", "b", "c">>)>> >>),
     PyDict(<< <<<<"j", "s", "o", "n", "p", "a", "t", "h">>, PyStr(<<"$", ".", "n", "o", "d", "e", "s", ".", "a", "[", "1", "[", "2", "]">>)>>, <<<<"v", "a", "l", "u", "e">>, PyInt(1)>> >>),
     PyDict(<< <<<<"j", "s", "o", "n", "p", "a", "t", "h">>, PyInt(5)>>, <<<<"v", "a", "l", "u", "e">>, PyInt(1)>> >>),
     PyDict(<< <<<<"n", "o", "d", "e", "s">>, PyList(<<PyStr(<<"W", "e", "b", "h", "o", "o", "k">>), PyStr(<<"R", "e", "s", "p", "o", "n", "d">>)>>)>> >>),
     PyDict(<< <<<<"n", "o", "d", "e", "s">>, PyList(<<PyStr(<<"R", "e", "s", "p", "o", "n", "d">>), PyStr(<<"W", "e", "b", "h", "o", "o", "k">>)>>)>> >>),
     PyDict(<< <<<<"n", "o", "d", "e", "s">>, PyInt(5)>> >>),
     PyDict(<< <<<<"m", "e", "t", "h", "o", "d">>, PyStr(<<"p", "o", "s", "t">>)>>, <<<<"u", "r", "l", "C", "o", "n", "t", "a", "i", "n", "s">>, PyStr(<<"a", "p", "i">>)>> >>),
     PyDict(<< <<<<"m", "e", "t", "h", "o", "d">>, PyInt(5)>> >>),
     PyDict(<< <<<<"e", "x", "i", "s", "t", "s">>, PyBool(FALSE)>> >>),
     PyList(<<PyInt(1)>>),
     PyNone >>

\* Traces: the one of the designed run, one whose body holds a number, one
\* with an outgoing call, and malformed ones: no keys, no mapping, nodes and
\* calls that are no mappings.
EvalTraces ==
  << TraceOf(200, PyDict(<< <<<<"u", "p", "p", "e", "r">>, PyStr(<<"H", "E", "L", "L", "O">>)>> >>)),
     TraceOf(404, PyDict(<< <<<<"u", "p", "p", "e", "r">>, PyInt(3)>> >>)),
     PyDict(<< <<<<"h", "t", "t", "p", "O", "u", "t", "g", "o", "i", "n", "g">>,
                 PyList(<<PyDict(<< <<<<"m", "e", "t", "h", "o", "d">>, PyStr(<<"P", "O", "S", "T">>)>>,
                                    <<<<"u", "r", "l">>, PyStr(<<"h", "t", "t", "p", ":", "/", "/", "x", "/", "a", "p", "i">>)>> >>)>>)>> >>),
     PyDict(<<>>),
     PyDict(<< <<<<"n", "o", "d", "e", "s">>, PyList(<<PyInt(1)>>)>>,
               <<<<"h", "t", "t", "p", "O", "u", "t", "g", "o", "i", "n", "g">>, PyList(<<PyStr(<<"G", "E", "T">>)>>)>> >>),
     PyDict(<< <<<<"n", "o", "d", "e", "s">>, PyInt(1)>>, <<<<"h", "t", "t", "p", "O", "u", "t", "g", "o", "i", "n", "g">>, PyNone>> >>),
     PyList(<<>>),
     PyNone >>

\* eval_assertion is about to be called on one operator, one args value and
\* one trace; no request is being served.
InitEval ==
  /\ pc = "eval"
  /\ \E o \in 1..Len(EvalOperators), a \in 1..Len(EvalArgs), t \in 1..Len(EvalTraces) :
       call = <<EvalOperators[o], EvalArgs[a], EvalTraces[t]>>
  /\ returned = Unbound
  /\ invocations = <<>>
  /\ shared = <<>>
  /\ payload = [workflow_contract_id |-> <<>>, use_n8n |-> FALSE]
  /\ env = FALSE
  /\ wc = FALSE /\ fp = PyNone /\ ap = PyNone
  /\ run = NoRun
  /\ db_runs = NoRun
  /\ db_artifacts = <<>>
  /\ files = <<>>
  /\ use_n8n = FALSE
  /\ wf = Unbound
  /\ wf_id = Unbound
  /\ trace = Unbound
  /\ results = <<>>
  /\ next = 1
  /\ exit = "none"
  /\ response = NoResponseYet
  /\ n8n = {}
  /\ calls = <<>>
  /\ cleanup = "none"
  /\ statuses = <<>>
  /\ raised_by = "none"

\* The call: what eval_assertion returns, or the exception that leaves it.
Evaluate ==
  /\ pc = "eval"
  /\ returned' = eval_assertion(call[1], call[2], call[3])
  /\ pc' = "evaluated"
  /\ UNCHANGED <<invocations, shared, payload, env, wc, fp, ap, call, run, db_runs, db_artifacts, files,
                 use_n8n, wf, wf_id, trace, results, next, exit, response, n8n,
                 calls, cleanup, statuses, raised_by>>

InitAll == Init \/ InitEval

NextAll == Next \/ Evaluate

\* test_run, and eval_assertion on its own.
SpecEval == InitAll /\ [][NextAll]_vars

\* The operator of the call is outside the catalogue.
UnknownOperator == call[1].t # "str" \/ call[1].v \notin KnownOperators

\* C10: eval_assertion never raises. Whatever the operator, the args and the
\* trace, it returns a pair (passed, message) with passed a boolean; when its
\* evaluation fails internally passed is false and the message tells of the
\* exception; an operator outside the catalogue gives passed false and the
\* message "Unknown operator: ...". So in test_run no exception leaves the
\* for loop over the assertions.
C10_EvalNeverRaises ==
  /\ pc = "evaluated" =>
       /\ returned.exc = "none"
       /\ returned.passed \in BOOLEAN
       /\ EvalTry(call[1], call[2], call[3]).exc # "none" =>
            ~returned.passed /\ returned.message[1] = "Exception evaluating "
       /\ UnknownOperator =>
            ~returned.passed /\ returned.message[1] = "Unknown operator: "
  /\ raised_by \notin {"eval_assertion", "AssertionResult", "a.get"}
  /\ pc = "loop" => Len(results) = next - 1

\* An evaluation that failed internally.
C10_Witness ==
  /\ pc = "evaluated"
  /\ EvalTry(call[1], call[2], call[3]).exc # "none"
  /\ ~returned.passed

\* An operator outside the catalogue, called with malformed args and trace.
C10_WitnessUnknown ==
  /\ pc = "evaluated"
  /\ UnknownOperator
  /\ call[2] = PyNone /\ call[3] = PyNone
  /\ returned.message[1] = "Unknown operator: "

\* In test_run, an assertion whose evaluation failed internally is followed
\* by the evaluation of the next one.
C10_WitnessRun ==
  /\ Struck
  /\ Len(run.results) >= 2
  /\ run.results[1].message[1] = "Exception evaluating "

\* ------------------------------------------------------------ the empty pack

\* C11: a run of a pack without assertions whose execution succeeded gets the
\* verdict PASS with no results; the JUnit document generated for it, and the
\* one written, has tests = "0" and no test case; the run returned is PASS,
\* has no results and has its report.
C11_EmptyPackPasses ==
  (run.status # "none" /\ Len(Assertions) = 0) =>
    /\ Struck =>
         /\ run.status = "PASS" /\ run.results = <<>>
         /\ generate_junit_xml(run).tests = <<"0">>
         /\ generate_junit_xml(run).cases = <<>>
    /\ files # <<>> =>
         files[1].content.tests = <<"0">> /\ files[1].content.cases = <<>>
    /\ (response.kind = "run" /\ trace # Unbound) =>
         /\ response.run.status = "PASS" /\ response.run.results = <<>>
         /\ response.run.junit_path = "set"
         /\ Len(files) = 1 /\ Len(db_artifacts) = 1

\* A run of the empty pack on the real n8n path is returned as PASS.
C11_Witness ==
  /\ response.kind = "run"
  /\ Len(Assertions) = 0
  /\ use_n8n
  /\ response.run.status = "PASS"
  /\ files[1].content.cases = <<>>

\* ------------------------------------------------------------ functions on their own

\* No request is being served: the variables of test_run are at rest.
Idle ==
  /\ payload = [workflow_contract_id |-> <<>>, use_n8n |-> FALSE]
  /\ env = FALSE
  /\ wc = FALSE /\ fp = PyNone /\ ap = PyNone
  /\ run = NoRun
  /\ db_runs = NoRun
  /\ db_artifacts = <<>>
  /\ files = <<>>
  /\ use_n8n = FALSE
  /\ wf = Unbound
  /\ wf_id = Unbound
  /\ trace = Unbound
  /\ results = <<>>
  /\ next = 1
  /\ exit = "none"
  /\ response = NoResponseYet
  /\ n8n = {}
  /\ calls = <<>>
  /\ cleanup = "none"
  /\ statuses = <<>>
  /\ raised_by = "none"

\* ------------------------------------------------------------ pathTaken

\* The longest list of nodes, and of expected types, pathTaken is called with.
MaxNodes == 3

NodeTypes == << <<"W", "e", "b", "h", "o", "o", "k">>, <<"F", "u", "n", "c", "t", "i", "o", "n">>, <<"R", "e", "s", "p", "o", "n", "d">> >>

\* pathTaken is about to be called: the trace has the nodes of types
\* actual, in order, and args["nodes"] is the list expected.
InitPathTaken ==
  /\ pc = "eval"
  /\ \E n \in 0..MaxNodes, m \in 0..MaxNodes :
       \E actual \in [1..n -> 1..Len(NodeTypes)], expected \in [1..m -> 1..Len(NodeTypes)] :
         call = << PyStr(<<"p", "a", "t", "h", "T", "a", "k", "e", "n">>),
                   PyDict(<< << <<"n", "o", "d", "e", "s">>,
                                PyList([k \in 1..m |-> PyStr(NodeTypes[expected[k]])]) >> >>),
                   PyDict(<< << <<"n", "o", "d", "e", "s">>,
                                PyList([k \in 1..n |->
                                         PyDict(<< << <<"i", "d">>, PyStr(IntText(k)) >>,
                                                   << <<"t", "y", "p", "e">>, PyStr(NodeTypes[actual[k]]) >> >>)]) >> >>) >>
  /\ returned = Unbound
  /\ invocations = <<>>
  /\ shared = <<>>
  /\ Idle

SpecPathTaken == InitPathTaken /\ [][Evaluate]_vars

\* The expected type names of the call, and the types of the nodes of its trace.
ExpectedTypes == Item(call[2], <<"n", "o", "d", "e", "s">>).v
ActualTypes ==
  [k \in 1..Len(Item(call[3], <<"n", "o", "d", "e", "s">>).v) |-> Item(Item(call[3], <<"n", "o", "d", "e", "s">>).v[k], <<"t", "y", "p", "e">>)]

\* e is a subsequence of a: its elements are found in a at strictly
\* increasing positions.
IsSubsequence(e, a) ==
  \E at \in [1..Len(e) -> 1..Len(a)] :
    /\ \A i \in 1..Len(e) : a[at[i]] = e[i]
    /\ \A i \in 1..Len(e) : \A j \in 1..Len(e) : i < j => at[i] < at[j]

\* C12: for every list of node types and every list of expected type names,
\* duplicates and the empty list included, pathTaken returns without raising
\* and passes if and only if the expected list is a subsequence of the actual
\* one, in order and not necessarily contiguous.
C12_PathTakenIffSubsequence ==
  pc = "evaluated" =>
    /\ returned.exc = "none"
    /\ returned.passed <=> IsSubsequence(ExpectedTypes, ActualTypes)

\* The example of the specification: Webhook, Respond passes on Webhook,
\* Function, Respond without being contiguous.
C12_Witness ==
  /\ pc = "evaluated"
  /\ ExpectedTypes = <<PyStr(NodeTypes[1]), PyStr(NodeTypes[3])>>
  /\ ActualTypes = <<PyStr(NodeTypes[1]), PyStr(NodeTypes[2]), PyStr(NodeTypes[3])>>
  /\ returned.passed

\* A type expected twice that the trace has once: pathTaken fails.
C12_WitnessDuplicate ==
  /\ pc = "evaluated"
  /\ ExpectedTypes = <<PyStr(NodeTypes[1]), PyStr(NodeTypes[1])>>
  /\ ActualTypes = <<PyStr(NodeTypes[1]), PyStr(NodeTypes[2])>>
  /\ ~returned.passed

\* ------------------------------------------------------------ jsonpath_get on its own

\* The longest sequence an index query is made on; the indices go from
\* -(MaxSeq + 2) to MaxSeq + 2.
MaxSeq == 3

\* The sequence of n elements 10, 20, ...
SeqOf(n) == [k \in 1..n |-> PyInt(10 * k)]

\* The query $.items[i]
IndexQuery(i) == PyStr(<<"$", ".", "i", "t", "e", "m", "s", "[">> \o IntText(i) \o <<"]">>)

\* Queries that do not fit the type of what they are applied to, as data and
\* path: a further segment on a scalar (number, text, boolean, null), a
\* bracket index on a field that holds no sequence (number, boolean, null,
\* mapping, text), and a segment that is no integer on a sequence.
MismatchQueries ==
  << << PyDict(<< << <<"a">>, PyInt(5) >> >>), PyStr(<<"$", ".", "a", ".", "b">>) >>,
     << PyDict(<< << <<"a">>, PyStr(<<"t", "x", "t">>) >> >>), PyStr(<<"$", ".", "a", ".", "b">>) >>,
     << PyDict(<< << <<"a">>, PyStr(<<"t", "x", "t">>) >> >>), PyStr(<<"$", ".", "a", ".", "0">>) >>,
     << PyDict(<< << <<"a">>, PyBool(TRUE) >> >>), PyStr(<<"$", ".", "a", ".", "b", ".", "c">>) >>,
     << PyDict(<< << <<"a">>, PyNone >> >>), PyStr(<<"$", ".", "a", ".", "b", "[", "0", "]">>) >>,
     << PyDict(<< << <<"a">>, PyInt(5) >> >>), PyStr(<<"$", ".", "a", "[", "0", "]">>) >>,
     << PyDict(<< << <<"a">>, PyBool(TRUE) >> >>), PyStr(<<"$", ".", "a", "[", "0", "]">>) >>,
     << PyDict(<< << <<"a">>, PyNone >> >>), PyStr(<<"$", ".", "a", "[", "0", "]">>) >>,
     << PyDict(<< << <<"a">>, PyDict(<< << <<"k">>, PyInt(1) >> >>) >> >>), PyStr(<<"$", ".", "a", "[", "0", "]">>) >>,
     << PyDict(<< << <<"a">>, PyStr(<<"t", "x", "t">>) >> >>), PyStr(<<"$", ".", "a", "[", "0", "]">>) >>,
     << PyDict(<< << <<"a">>, PyList(<<PyInt(1), PyInt(2)>>) >> >>), PyStr(<<"$", ".", "a", ".", "b">>) >>,
     << PyDict(<< << <<"a">>, PyList(<<PyInt(1), PyInt(2)>>) >> >>), PyStr(<<"$", ".", "a", ".", "b", "[", "0", "]">>) >>,
     << PyDict(<< << <<"a">>, PyList(<<PyInt(1), PyInt(2)>>) >> >>), PyStr(<<"$", ".", "a", ".", "[", "x", "]">>) >>,
     << PyDict(<< << <<"a">>, PyList(<<PyInt(1), PyInt(2)>>) >> >>), PyStr(<<"$", ".", "a", ".", "b", "[", "1", "[", "2", "]">>) >> >>

\* jsonpath_get is about to be called: with an index query on a mapping whose
\* key items holds a sequence, or with a query that does not fit its data.
InitJsonpath ==
  /\ pc = "jsonpath"
  /\ \/ \E n \in 0..MaxSeq, i \in (0 - (MaxSeq + 2))..(MaxSeq + 2) :
          call = << PyDict(<< << <<"i", "t", "e", "m", "s">>, PyList(SeqOf(n)) >> >>), IndexQuery(i) >>
     \/ \E q \in 1..Len(MismatchQueries) : call = MismatchQueries[q]
  /\ returned = Unbound
  /\ invocations = <<>>
  /\ shared = <<>>
  /\ Idle

\* The call: what jsonpath_get returns, or the exception that leaves it.
EvaluateJsonpath ==
  /\ pc = "jsonpath"
  /\ returned' = jsonpath_get(call[1], call[2])
  /\ pc' = "evaluated"
  /\ UNCHANGED <<invocations, shared, payload, env, wc, fp, ap, call, run, db_runs, db_artifacts, files,
                 use_n8n, wf, wf_id, trace, results, next, exit, response, n8n,
                 calls, cleanup, statuses, raised_by>>

SpecJsonpath == InitJsonpath /\ [][EvaluateJsonpath]_vars

\* The call is an index query: its sequence, and its index.
IsIndexQuery == HasKey(call[1], <<"i", "t", "e", "m", "s">>)
QueriedSeq == Item(call[1], <<"i", "t", "e", "m", "s">>).v
QueriedIndex == IntParse(SubSeq(call[2].v, 9, Len(call[2].v) - 1)).v

\* C13: on a mapping whose key items holds the sequence s, the query
\* $.items[i] returns s[i] when 0 <= i < len(s), and None for every other
\* integer i, the negative ones included.
C13_IndexQuery ==
  (pc = "evaluated" /\ IsIndexQuery) =>
    /\ returned.exc = "none"
    /\ IF 0 <= QueriedIndex /\ QueriedIndex < Len(QueriedSeq)
         THEN PyEq(returned.v, QueriedSeq[QueriedIndex + 1])
         ELSE returned.v.t = "none"

\* What the code does for C13: s[i] as Python indexes a list, so an index
\* from -len(s) to -1 counts from the end; None for every other index.
C13_IndexQueryAsPython ==
  (pc = "evaluated" /\ IsIndexQuery) =>
    /\ returned.exc = "none"
    /\ IF 0 <= QueriedIndex /\ QueriedIndex < Len(QueriedSeq)
         THEN PyEq(returned.v, QueriedSeq[QueriedIndex + 1])
         ELSE IF 0 - Len(QueriedSeq) <= QueriedIndex /\ QueriedIndex < 0
           THEN PyEq(returned.v, QueriedSeq[Len(QueriedSeq) + QueriedIndex + 1])
           ELSE returned.v.t = "none"

\* $.items[-1] on a sequence of two returns its last element.
C13_WitnessNegative ==
  /\ pc = "evaluated" /\ IsIndexQuery
  /\ Len(QueriedSeq) = 2 /\ QueriedIndex = 0 - 1
  /\ PyEq(returned.v, PyInt(20))

\* C14: every query that does not fit the type of its data returns None and
\* does not raise.
C14_MismatchIsAbsent ==
  (pc = "evaluated" /\ ~IsIndexQuery) =>
    returned.exc = "none" /\ returned.v.t = "none"

\* A bracket index on a text returns a character of it.
C14_WitnessText ==
  /\ pc = "evaluated" /\ ~IsIndexQuery
  /\ returned.exc = "none"
  /\ returned.v.t = "str"

\* A segment with two brackets on a sequence raises.
C14_WitnessRaises ==
  /\ pc = "evaluated" /\ ~IsIndexQuery
  /\ returned.exc = "ValueError"

\* ------------------------------------------------------------ the operators on their own

\* The trace the operators that read a path are called on: its body holds a
\* text, numbers, a text of digits, a boolean, a null, a list and a mapping.
OperandTrace ==
  TraceOf(200, PyDict(<< << <<"u", "p", "p", "e", "r">>, PyStr(<<"H", "E", "L", "L", "O">>) >>,
                         << <<"n">>, PyInt(3) >>,
                         << <<"n", "e", "g">>, PyInt(0 - 2) >>,
                         << <<"s">>, PyStr(<<"5">>) >>,
                         << <<"f", "l", "a", "g">>, PyBool(TRUE) >>,
                         << <<"n", "o", "t", "h", "i", "n", "g">>, PyNone >>,
                         << <<"i", "t", "e", "m", "s">>, PyList(<<PyInt(1), PyStr(<<"a">>)>>) >>,
                         << <<"o", "b", "j">>, PyDict(<< << <<"k">>, PyInt(1) >> >>) >> >>))

\* The queries: those that resolve to a value of the trace; those that
\* resolve to nothing (a missing key, an index out of bounds, a query without
\* its root, an empty query); one on which jsonpath_get raises.
OperandPaths ==
  [present |->
     << PyStr(<<"$", ".", "r", "e", "s", "p", "o", "n", "s", "e", ".", "b", "o", "d", "y", ".", "u", "p", "p", "e", "r">>), PyStr(<<"$", ".", "r", "e", "s", "p", "o", "n", "s", "e", ".", "b", "o", "d", "y", ".", "n">>),
       PyStr(<<"$", ".", "r", "e", "s", "p", "o", "n", "s", "e", ".", "b", "o", "d", "y", ".", "n", "e", "g">>), PyStr(<<"$", ".", "r", "e", "s", "p", "o", "n", "s", "e", ".", "b", "o", "d", "y", ".", "s">>),
       PyStr(<<"$", ".", "r", "e", "s", "p", "o", "n", "s", "e", ".", "b", "o", "d", "y", ".", "f", "l", "a", "g">>), PyStr(<<"$", ".", "r", "e", "s", "p", "o", "n", "s", "e", ".", "b", "o", "d", "y", ".", "n", "o", "t", "h", "i", "n", "g">>),
       PyStr(<<"$", ".", "r", "e", "s", "p", "o", "n", "s", "e", ".", "b", "o", "d", "y", ".", "i", "t", "e", "m", "s">>), PyStr(<<"$", ".", "r", "e", "s", "p", "o", "n", "s", "e", ".", "b", "o", "d", "y", ".", "o", "b", "j">>),
       PyStr(<<"$", ".", "r", "e", "s", "p", "o", "n", "s", "e", ".", "b", "o", "d", "y", ".", "i", "t", "e", "m", "s", "[", "1", "]">>) >>,
   absent |->
     << PyStr(<<"$", ".", "r", "e", "s", "p", "o", "n", "s", "e", ".", "b", "o", "d", "y", ".", "m", "i", "s", "s", "i", "n", "g">>), PyStr(<<"$", ".", "r", "e", "s", "p", "o", "n", "s", "e", ".", "b", "o", "d", "y", ".", "i", "t", "e", "m", "s", "[", "5", "]">>),
       PyStr(<<"r", "e", "s", "p", "o", "n", "s", "e", ".", "b", "o", "d", "y", ".", "n">>), PyStr(<<>>) >>,
   raising |-> << PyStr(<<"$", ".", "r", "e", "s", "p", "o", "n", "s", "e", ".", "b", "o", "d", "y", ".", "i", "t", "e", "m", "s", ".", "b", "[", "1", "[", "2", "]">>) >>]

\* Comparison values.
OperandValues ==
  << PyStr(<<"H", "E", "L", "L", "O">>), PyStr(<<"H", "E", "L">>), PyStr(<<"a">>), PyStr(<<"5">>), PyStr(<<"a", "b", "c">>),
     PyInt(3), PyInt(1), PyInt(0 - 2), PyBool(TRUE), PyNone,
     PyList(<<PyInt(1), PyStr(<<"a">>)>>), PyDict(<< << <<"k">>, PyInt(1) >> >>) >>

\* The traces httpOutgoing is called on: no call, one call, two calls of
\* which the first has its method in lower case, no httpOutgoing key, and a
\* call without method and url.
OutgoingTraces ==
  << PyDict(<< << <<"h", "t", "t", "p", "O", "u", "t", "g", "o", "i", "n", "g">>, PyList(<<>>) >> >>),
     PyDict(<< << <<"h", "t", "t", "p", "O", "u", "t", "g", "o", "i", "n", "g">>,
                  PyList(<< PyDict(<< << <<"m", "e", "t", "h", "o", "d">>, PyStr(<<"P", "O", "S", "T">>) >>,
                                      << <<"u", "r", "l">>, PyStr(<<"h", "t", "t", "p", ":", "/", "/", "x", "/", "a", "p", "i">>) >> >>) >>) >> >>),
     PyDict(<< << <<"h", "t", "t", "p", "O", "u", "t", "g", "o", "i", "n", "g">>,
                  PyList(<< PyDict(<< << <<"m", "e", "t", "h", "o", "d">>, PyStr(<<"g", "e", "t">>) >>,
                                      << <<"u", "r", "l">>, PyStr(<<"h", "t", "t", "p", ":", "/", "/", "y">>) >> >>),
                            PyDict(<< << <<"m", "e", "t", "h", "o", "d">>, PyStr(<<"P", "O", "S", "T">>) >>,
                                      << <<"u", "r", "l">>, PyStr(<<"h", "t", "t", "p", ":", "/", "/", "x", "/", "a", "p", "i">>) >> >>) >>) >> >>),
     PyDict(<<>>),
     PyDict(<< << <<"h", "t", "t", "p", "O", "u", "t", "g", "o", "i", "n", "g">>, PyList(<< PyDict(<<>>) >>) >> >>) >>

\* The filters of httpOutgoing; each can be omitted too.
OutgoingFilters ==
  [method |-> << PyStr(<<"p", "o", "s", "t">>), PyStr(<<"P", "O", "S", "T">>), PyStr(<<"G", "E", "T">>), PyStr(<<>>) >>,
   urlContains |-> << PyStr(<<"a", "p", "i">>), PyStr(<<"z", "z", "z">>), PyStr(<<>>) >>,
   exists |-> << PyBool(TRUE), PyBool(FALSE) >>]

\* args with the key k when there is a value for it (a list of none or one).
Arg(k, values, i) == IF i = 0 THEN <<>> ELSE << <<k, values[i]>> >>

\* eval_assertion is about to be called with an operator that reads a path,
\* on a query and a comparison value (either can be omitted), or with
\* httpOutgoing and its filters.
InitOperators ==
  /\ pc = "eval"
  /\ \/ \E o \in {<<"e", "q">>, <<"n", "e", "q">>, <<"g", "t">>, <<"l", "t">>, <<"c", "o", "n", "t", "a", "i", "n", "s">>, <<"n", "o", "t", "C", "o", "n", "t", "a", "i", "n", "s">>},
           p \in 0..Len((OperandPaths.present \o OperandPaths.absent \o OperandPaths.raising)), v \in 0..Len(OperandValues) :
          call = << PyStr(o),
                    PyDict(Arg(<<"j", "s", "o", "n", "p", "a", "t", "h">>, (OperandPaths.present \o OperandPaths.absent \o OperandPaths.raising), p)
                             \o Arg(<<"v", "a", "l", "u", "e">>, OperandValues, v)),
                    OperandTrace >>
     \/ \E m \in 0..Len(OutgoingFilters.method),
           u \in 0..Len(OutgoingFilters.urlContains),
           e \in 0..Len(OutgoingFilters.exists), t \in 1..Len(OutgoingTraces) :
          call = << PyStr(<<"h", "t", "t", "p", "O", "u", "t", "g", "o", "i", "n", "g">>),
                    PyDict(Arg(<<"m", "e", "t", "h", "o", "d">>, OutgoingFilters.method, m)
                             \o Arg(<<"u", "r", "l", "C", "o", "n", "t", "a", "i", "n", "s">>, OutgoingFilters.urlContains, u)
                             \o Arg(<<"e", "x", "i", "s", "t", "s">>, OutgoingFilters.exists, e)),
                    OutgoingTraces[t] >>
  /\ returned = Unbound
  /\ invocations = <<>>
  /\ shared = <<>>
  /\ Idle

SpecOperators == InitOperators /\ [][Evaluate]_vars

\* The operator of the call is the one named.
Called(name) == pc = "evaluated" /\ call[1].v = name

\* What the query of the call resolves to, as [exc, v]: nothing (None) when
\* args has no query or an empty one.
Extraction ==
  IF HasKey(call[2], <<"j", "s", "o", "n", "p", "a", "t", "h">>) /\ Truthy(Item(call[2], <<"j", "s", "o", "n", "p", "a", "t", "h">>))
    THEN jsonpath_get(call[3], Item(call[2], <<"j", "s", "o", "n", "p", "a", "t", "h">>))
    ELSE Ok(PyNone)

\* The query of the call is one that resolves to nothing.
QueryAbsent ==
  \/ ~HasKey(call[2], <<"j", "s", "o", "n", "p", "a", "t", "h">>)
  \/ \E k \in 1..Len(OperandPaths.absent) :
       Item(call[2], <<"j", "s", "o", "n", "p", "a", "t", "h">>) = OperandPaths.absent[k]

\* The comparison value of the call: whether args has one, and which.
ValueGiven == HasKey(call[2], <<"v", "a", "l", "u", "e">>)
Compared == IF ValueGiven THEN Item(call[2], <<"v", "a", "l", "u", "e">>) ELSE PyNone

\* C15: for every query on which the extraction does not raise, and every
\* comparison value, eq passes if and only if neq fails.
C15_EqNeqInverse ==
  /\ (Called(<<"e", "q">>) /\ Extraction.exc = "none") =>
       /\ returned.exc = "none"
       /\ returned.passed <=> ~eval_assertion(PyStr(<<"n", "e", "q">>), call[2], call[3]).passed
  /\ (Called(<<"n", "e", "q">>) /\ Extraction.exc = "none") =>
       /\ returned.exc = "none"
       /\ returned.passed <=> ~eval_assertion(PyStr(<<"e", "q">>), call[2], call[3]).passed

\* neq fails on two values that are equal as Python compares them: the
\* boolean True of the trace and the number 1.
C15_Witness ==
  /\ Called(<<"n", "e", "q">>)
  /\ Extraction.v.t = "bool" /\ Compared.t = "int"
  /\ ~returned.passed

\* eq fails and neq passes on a text and a number.
C15_WitnessDiffer ==
  /\ Called(<<"n", "e", "q">>)
  /\ Extraction.v.t = "str" /\ Compared.t = "int"
  /\ returned.passed

\* C16: when the query resolves to nothing (missing key, index out of
\* bounds, query without root, empty or missing query), eq fails and neq
\* passes against every comparison value that args gives, null included.
C16_AbsentEqualsNothingGiven ==
  /\ (Called(<<"e", "q">>) /\ QueryAbsent /\ ValueGiven) => ~returned.passed
  /\ (Called(<<"n", "e", "q">>) /\ QueryAbsent /\ ValueGiven) => returned.passed

\* What the code does for C16: eq fails and neq passes on a query that
\* resolves to nothing against every value but null.
C16_AbsentEqualsOnlyNull ==
  /\ (Called(<<"e", "q">>) /\ QueryAbsent) => (returned.passed <=> Compared.t = "none")
  /\ (Called(<<"n", "e", "q">>) /\ QueryAbsent) => (returned.passed <=> Compared.t # "none")

\* eq passes on a missing key against the value null.
C16_WitnessNull ==
  /\ Called(<<"e", "q">>)
  /\ QueryAbsent /\ HasKey(call[2], <<"j", "s", "o", "n", "p", "a", "t", "h">>)
  /\ ValueGiven /\ Compared.t = "none"
  /\ returned.passed

\* A number, or a text that reads as one (an optional sign and digits).
IsNumericText(s) ==
  /\ Len(s) > 0
  /\ LET body == IF s[1] = "-" THEN Tail(s) ELSE s
     IN Len(body) > 0 /\ \A i \in 1..Len(body) : IsDigit(body[i])

Numeric(x) == x.t \in {"int", "float"} \/ (x.t = "str" /\ IsNumericText(x.v))

\* Non-numeric text, nothing, a list or a mapping.
NonNumeric(x) ==
  x.t \in {"none", "list", "dict"} \/ (x.t = "str" /\ ~IsNumericText(x.v))

\* The number a numeric value stands for.
NumberOf(x) == IF x.t = "str" THEN IntParse(x.v).v ELSE x.v

C17_WitnessNonNumeric ==
  /\ Called(<<"g", "t">>)
  /\ Extraction.exc = "none" /\ Extraction.v.t = "int"
  /\ Compared.t = "str" /\ ~IsNumericText(Compared.v)
  /\ returned.exc = "none" /\ ~returned.passed
  /\ returned.message[1] = "Non-numeric compare: "

C17_WitnessEqual ==
  /\ Called(<<"l", "t">>)
  /\ Extraction.exc = "none" /\ Numeric(Extraction.v) /\ Numeric(Compared)
  /\ NumberOf(Extraction.v) = NumberOf(Compared)
  /\ ~returned.passed

\* The value is a member of the list, or a text inside the text.
MemberOf(x, hay) ==
  IF hay.t = "list" THEN \E i \in 1..Len(hay.v) : PyEq(hay.v[i], x)
  ELSE x.t = "str" /\ IsSubstring(x.v, hay.v)

\* C18: contains and notContains both fail when the extracted value is
\* neither a list nor a text; when it is one, contains passes iff the value
\* is a member (or a substring) of it and notContains passes iff it is not.
C18_ContainsIffMember ==
  /\ (Called(<<"c", "o", "n", "t", "a", "i", "n", "s">>) /\ Extraction.exc = "none") =>
       IF Extraction.v.t \in {"list", "str"}
         THEN returned.passed <=> MemberOf(Compared, Extraction.v)
         ELSE ~returned.passed
  /\ (Called(<<"n", "o", "t", "C", "o", "n", "t", "a", "i", "n", "s">>) /\ Extraction.exc = "none") =>
       IF Extraction.v.t \in {"list", "str"}
         THEN returned.passed <=> ~MemberOf(Compared, Extraction.v)
         ELSE ~returned.passed

\* What the code does for C18: as the claim says, but for a value that is
\* not a text looked for in a text, where both operators fail.
C18_ContainsAsPython ==
  /\ (Called(<<"c", "o", "n", "t", "a", "i", "n", "s">>) /\ Extraction.exc = "none") =>
       IF Extraction.v.t \in {"list", "str"}
         THEN returned.passed <=> MemberOf(Compared, Extraction.v)
         ELSE ~returned.passed
  /\ (Called(<<"n", "o", "t", "C", "o", "n", "t", "a", "i", "n", "s">>) /\ Extraction.exc = "none") =>
       IF Extraction.v.t = "list" \/ (Extraction.v.t = "str" /\ Compared.t = "str")
         THEN returned.passed <=> ~MemberOf(Compared, Extraction.v)
         ELSE ~returned.passed

\* notContains fails on a number looked for in a text.
C18_WitnessNumberInText ==
  /\ Called(<<"n", "o", "t", "C", "o", "n", "t", "a", "i", "n", "s">>)
  /\ Extraction.exc = "none" /\ Extraction.v.t = "str"
  /\ Compared.t = "int"
  /\ ~returned.passed
  /\ returned.message[1] = "Exception evaluating "

\* The text under key k of a mapping, empty when there is none.
TextOf(d, k) == IF HasKey(d, k) /\ Item(d, k).t = "str" THEN Item(d, k).v ELSE <<>>

MethodFilter == TextOf(call[2], <<"m", "e", "t", "h", "o", "d">>)
UrlFilter == TextOf(call[2], <<"u", "r", "l", "C", "o", "n", "t", "a", "i", "n", "s">>)

\* The call has the method of the filter, whatever the case of either, and
\* the text of urlContains in its url; a filter that is not given asks for
\* nothing.
CallFits(c) ==
  /\ MethodFilter = <<>> \/ UpperText(TextOf(c, <<"m", "e", "t", "h", "o", "d">>)) = UpperText(MethodFilter)
  /\ UrlFilter = <<>> \/ IsSubstring(UrlFilter, TextOf(c, <<"u", "r", "l">>))

SomeCallFits ==
  /\ HasKey(call[3], <<"h", "t", "t", "p", "O", "u", "t", "g", "o", "i", "n", "g">>)
  /\ \E i \in 1..Len(Item(call[3], <<"h", "t", "t", "p", "O", "u", "t", "g", "o", "i", "n", "g">>).v) :
       CallFits(Item(call[3], <<"h", "t", "t", "p", "O", "u", "t", "g", "o", "i", "n", "g">>).v[i])

ExistsFalse ==
  /\ HasKey(call[2], <<"e", "x", "i", "s", "t", "s">>)
  /\ Item(call[2], <<"e", "x", "i", "s", "t", "s">>).t = "bool"
  /\ ~Item(call[2], <<"e", "x", "i", "s", "t", "s">>).v

\* C19: with exists true or omitted httpOutgoing passes iff some call of
\* trace.httpOutgoing has the method of the filter (in any case, if given)
\* and urlContains in its url (if given); with exists false it passes iff no
\* call does.
C19_HttpOutgoing ==
  Called(<<"h", "t", "t", "p", "O", "u", "t", "g", "o", "i", "n", "g">>) =>
    /\ returned.exc = "none"
    /\ returned.passed <=> IF ExistsFalse THEN ~SomeCallFits ELSE SomeCallFits

\* httpOutgoing passes on the filter "post" through a call made with "POST",
\* the second of the trace.
C19_Witness ==
  /\ Called(<<"h", "t", "t", "p", "O", "u", "t", "g", "o", "i", "n", "g">>)
  /\ MethodFilter = <<"p", "o", "s", "t">> /\ UrlFilter = <<"a", "p", "i">>
  /\ ~ExistsFalse
  /\ Len(Item(call[3], <<"h", "t", "t", "p", "O", "u", "t", "g", "o", "i", "n", "g">>).v) = 2
  /\ returned.passed

\* httpOutgoing passes on the filter "GET" through a call made with "get".
C19_WitnessLower ==
  /\ Called(<<"h", "t", "t", "p", "O", "u", "t", "g", "o", "i", "n", "g">>)
  /\ MethodFilter = <<"G", "E", "T">> /\ UrlFilter = <<>>
  /\ ~ExistsFalse
  /\ returned.passed

\* With exists false httpOutgoing passes when no call has the url asked for.
C19_WitnessAbsent ==
  /\ Called(<<"h", "t", "t", "p", "O", "u", "t", "g", "o", "i", "n", "g">>)
  /\ ExistsFalse /\ UrlFilter = <<"z", "z", "z">>
  /\ HasKey(call[3], <<"h", "t", "t", "p", "O", "u", "t", "g", "o", "i", "n", "g">>)
  /\ Len(Item(call[3], <<"h", "t", "t", "p", "O", "u", "t", "g", "o", "i", "n", "g">>).v) > 0
  /\ returned.passed

\* ------------------------------------------------------------ the JUnit document

\* The testcase is the one of the result: named operator:assertion_id, with
\* one failure child, holding the message of the result as attribute and as
\* text, if and only if the result did not pass.
CaseOf(case, result) ==
  /\ case.name = result.operator \o <<":">> \o result.assertion_id
  /\ Len(case.failure) = (IF result.passed THEN 0 ELSE 1)
  /\ \A j \in 1..Len(case.failure) :
       /\ case.failure[j].message = result.message
       /\ case.failure[j].text = result.message

\* C20: the document generate_junit_xml produces for a run is one suite with
\* one testcase per result of the run, in the order of the results, each
\* named operator:assertion_id; its tests count is the number of testcases;
\* a testcase has a failure child, with the message as attribute and text,
\* if and only if its result did not pass.
C20_JunitOneCasePerResult ==
  \A f \in 1..Len(files) :
    /\ files[f].content.name = Lit("assertions")
    /\ Len(files[f].content.cases) = Len(run.results)
    /\ files[f].content.tests = IntText(Len(files[f].content.cases))
    /\ \A k \in 1..Len(run.results) : CaseOf(files[f].content.cases[k], run.results[k])

\* A document of two testcases, the first without a failure child and the
\* second with one.
C20_Witness ==
  /\ Len(files) = 1
  /\ Len(run.results) = 2
  /\ run.results[1].passed /\ ~run.results[2].passed
  /\ files[1].content.tests = <<"2">>
  /\ files[1].content.cases[1].failure = <<>>
  /\ Len(files[1].content.cases[2].failure) = 1

\* A document without testcases, for a pack without assertions.
C20_WitnessEmpty ==
  /\ Len(files) = 1
  /\ run.results = <<>>
  /\ files[1].content.tests = <<"0">>

\* ------------------------------------------------------------ the designed contract

\* The packs of the request are the ones design stores: the fixture with
\* msg = hello, and the three assertions pathTaken, eq and bodyContains.
DesignedPacks ==
  /\ Truthy(fp) /\ Truthy(ap)
  /\ Len(Item(fp, <<"f", "i", "x", "t", "u", "r", "e", "s">>).v) = 1
  /\ Len(Assertions) = 3
  /\ IdOf(1) = <<"d", "1">> /\ OperatorOf(1) = <<"p", "a", "t", "h", "T", "a", "k", "e", "n">>
  /\ OperatorOf(2) = <<"e", "q">>
  /\ OperatorOf(3) = <<"b", "o", "d", "y", "C", "o", "n", "t", "a", "i", "n", "s">>

\* C21: a mock test-run of the designed contract that returns a run returns
\* it with status PASS, three results that all passed and junit_path set, and
\* has written a report of three cases without a failure.
C21_DesignedMockRunPasses ==
  (response.kind = "run" /\ ~payload.use_n8n /\ DesignedPacks) =>
    /\ response.run.status = "PASS"
    /\ Len(response.run.results) = 3
    /\ \A k \in 1..Len(response.run.results) : response.run.results[k].passed
    /\ response.run.junit_path = "set"
    /\ Len(files) = 1
    /\ files[1].content.tests = <<"3">>
    /\ Len(files[1].content.cases) = 3
    /\ \A k \in 1..Len(files[1].content.cases) : files[1].content.cases[k].failure = <<>>

\* The mock run of the designed contract is returned, and its second result
\* is the one of eq on the uppercased message.
C21_Witness ==
  /\ response.kind = "run" /\ ~payload.use_n8n /\ DesignedPacks
  /\ ~use_n8n
  /\ response.run.status = "PASS"
  /\ response.run.results[2].message = <<"H", "E", "L", "L", "O">> \o Lit(" == ") \o <<"H", "E", "L", "L", "O">>

\* ------------------------------------------------------------ the fields of the returned run

\* C22: the run test_run returns has a field meta, on the mock path and on
\* the n8n path.
C22_ReturnedRunHasMeta ==
  response.kind = "run" => "meta" \in DOMAIN response.run

\* What the code does for C22: the run returned has the fields of the class
\* Run and no other.
C22_ReturnedRunFields ==
  response.kind = "run" =>
    DOMAIN response.run = {"id", "workflow_contract_id", "status", "started_at",
                           "finished_at", "results", "junit_path"}

\* A run is returned on the mock path.
C22_WitnessMock ==
  /\ response.kind = "run" /\ ~use_n8n
  /\ response.run.status = "PASS"

\* A run is returned on the n8n path, after the workflow was created, called
\* and deleted.
C22_WitnessN8n ==
  /\ response.kind = "run" /\ use_n8n
  /\ response.run.status = "PASS"
  /\ Len(calls) = 3

\* ------------------------------------------------------------ the fallback to the mock execution

\* C23: when the request asks for n8n and N8N_BASE_URL or N8N_API_KEY is not
\* set, test_run executes the mock: no request is made to n8n (no workflow
\* created or deleted) and none to a webhook, no workflow exists on n8n, and a
\* run of the designed contract that is returned is PASS.
C23_FallsBackToMock ==
  (payload.use_n8n /\ ~env) =>
    /\ ~use_n8n
    /\ calls = <<>> /\ n8n = {}
    /\ wf = Unbound /\ wf_id = Unbound
    /\ cleanup \in {"none", "skipped"}
    /\ (response.kind = "run" /\ DesignedPacks) => response.run.status = "PASS"

\* The run of the designed contract, asked to use n8n without its
\* configuration, is returned as PASS after the mock execution.
C23_Witness ==
  /\ payload.use_n8n /\ ~env
  /\ response.kind = "run" /\ DesignedPacks
  /\ response.run.status = "PASS"
  /\ cleanup = "skipped"
  /\ calls = <<>>

\* ------------------------------------------------------------ get_run

\* r = await db.runs.find_one({"id": run_id}); 404 if not r;
\* return TestRunResponse(run=Run(**r))
get_run(run_id) ==
  IF db_runs.status # "none" /\ db_runs.id = run_id
    THEN [kind |-> "run", run |-> db_runs]
    ELSE [kind |-> "http_error", run |-> NoRun]

\* A GET /runs/{run_id} request once test_run is over, for the id of its run
\* or for another id.
GetRun ==
  /\ pc = "done" /\ call = <<>>
  /\ \E run_id \in {RunId, <<"r", "2">>} :
       /\ call' = <<"get_run", run_id>>
       /\ returned' = get_run(run_id)
  /\ UNCHANGED <<pc, invocations, shared, payload, env, wc, fp, ap, run, db_runs, db_artifacts, files,
                 use_n8n, wf, wf_id, trace, results, next, exit, response, n8n,
                 calls, cleanup, statuses, raised_by>>

NextRuns == Next \/ GetRun

\* test_run, and get_run after it.
SpecRuns == Init /\ [][NextRuns]_vars

\* get_run was called for the run test_run returned.
GotReturnedRun ==
  /\ response.kind = "run"
  /\ call # <<>>
  /\ call[2] = response.run.id

\* C24: after test_run has returned a run, get_run for its id returns the
\* same run: the same id, status, results, finished_at and junit_path, on the
\* path of the verdict and on the path of the failed execution.
C24_GetRunReturnsSameRun ==
  GotReturnedRun =>
    /\ returned.kind = "run"
    /\ returned.run.id = response.run.id
    /\ returned.run.status = response.run.status
    /\ returned.run.results = response.run.results
    /\ returned.run.finished_at = response.run.finished_at
    /\ returned.run.junit_path = response.run.junit_path

\* What the code does for C24: get_run returns the run test_run returned
\* with finished_at cut to the millisecond.
C24_GetRunReturnsDocument ==
  GotReturnedRun =>
    /\ returned.kind = "run"
    /\ returned.run = Document(response.run)

\* get_run returns the run of a verdict with another finished_at than
\* test_run returned.
C24_Witness ==
  /\ GotReturnedRun /\ WasAsserting
  /\ returned.kind = "run"
  /\ returned.run.status = response.run.status
  /\ returned.run.junit_path = "set"
  /\ returned.run.finished_at # response.run.finished_at

\* get_run returns the run of a failed execution as test_run returned it,
\* finished on a whole millisecond.
C24_WitnessSame ==
  /\ GotReturnedRun /\ ~WasAsserting
  /\ returned.kind = "run"
  /\ returned.run = response.run
  /\ returned.run.status = "FAIL"

\* ------------------------------------------------------------ finished_at

\* finished_at of a run is set exactly when its status is PASS or FAIL.
FinishedIffTerminal(r) == r.finished_at # <<>> <=> r.status \in {"PASS", "FAIL"}

\* C26: in every state of a Run finished_at is set if and only if the status
\* is PASS or FAIL, on the path of the verdict and on the path of the failed
\* execution; it is None in QUEUED, PROVISIONING, EXECUTING and ASSERTING. The
\* same holds of the run as db.runs has it and as test_run returns it.
C26_FinishedIffTerminal ==
  /\ run.status # "none" => FinishedIffTerminal(run)
  /\ db_runs.status # "none" => FinishedIffTerminal(db_runs)
  /\ response.kind = "run" => FinishedIffTerminal(response.run)

\* finished_at is set by the step that gives the run its terminal status.
C26_SetOnEntering ==
  [][(run.status \notin {"PASS", "FAIL"} /\ run'.status \in {"PASS", "FAIL"})
       => (run.finished_at = <<>> /\ run'.finished_at # <<>>)]_vars

\* A run that failed while PROVISIONING, with finished_at set.
C26_Witness ==
  /\ statuses = <<"QUEUED", "PROVISIONING", "FAIL">>
  /\ run.finished_at # <<>>
  /\ db_runs.finished_at # <<>>

\* A run that is ASSERTING, with no finished_at.
C26_WitnessAsserting ==
  /\ run.status = "ASSERTING"
  /\ run.finished_at = <<>>
  /\ results # <<>>

\* A run that passed, with finished_at set.
C26_WitnessPass ==
  /\ run.status = "PASS"
  /\ run.finished_at # <<>>
  /\ response.kind = "run"

\* ------------------------------------------------------------ mask_secrets

\* (token|key|secret|password), matched whatever the case.
SecretKeys == << <<"t", "o", "k", "e", "n">>, <<"k", "e", "y">>, <<"s", "e", "c", "r", "e", "t">>, <<"p", "a", "s", "s", "w", "o", "r", "d">> >>

\* [^\s&]: a character of the texts of the model other than a blank and &.
ValueChar(c) ==
  \/ \E i \in 1..26 : LowerLetters[i] = c \/ UpperLetters[i] = c
  \/ IsDigit(c)
  \/ c \in {"=", "*", "'", ":", "/", ".", "-", "_", "!", ">", "<", ",", "[", "]"}

\* The key is at position i of the text, followed by = and by one character
\* of a value at least.
KeyAt(text, i, key) ==
  /\ i + Len(key) + 1 <= Len(text)
  /\ \A j \in 1..Len(key) : UpperChar(text[i + j - 1]) = UpperChar(key[j])
  /\ text[i + Len(key)] = "="
  /\ ValueChar(text[i + Len(key) + 1])

\* The length of the key matched at position i, 0 when there is none.
MatchAt(text, i) ==
  IF \E k \in 1..Len(SecretKeys) : KeyAt(text, i, SecretKeys[k])
    THEN Len(SecretKeys[CHOOSE k \in 1..Len(SecretKeys) : KeyAt(text, i, SecretKeys[k])])
    ELSE 0

\* ([^\s&]+): the position after the longest run of value characters from i.
RECURSIVE ValueEnd(_, _)
ValueEnd(text, i) ==
  IF i <= Len(text) /\ ValueChar(text[i]) THEN ValueEnd(text, i + 1) ELSE i

\* re.sub(pattern, r"\1=***", text) from position i on: the leftmost match is
\* replaced, and the search goes on after it.
RECURSIVE Sub(_, _)
Sub(text, i) ==
  IF i > Len(text) THEN <<>>
  ELSE IF MatchAt(text, i) = 0 THEN <<text[i]>> \o Sub(text, i + 1)
  ELSE SubSeq(text, i, i + MatchAt(text, i) - 1) \o <<"=", "*", "*", "*">>
         \o Sub(text, ValueEnd(text, i + MatchAt(text, i) + 1))

\* if not text: return text; return re.sub(...)
mask_secrets(text) == IF text = <<>> THEN text ELSE Sub(text, 1)

\* logging.exception("Execution error: %s", mask_secrets(str(e))): the record
\* of the log has the message, and the traceback of the exception being
\* handled, which ends with the text of the exception.
LogException(text) ==
  [message |-> Lit("Execution error: ") \o mask_secrets(text),
   traceback |-> Lit("Traceback (most recent call last): ") \o text]

\* Texts of exceptions: around a pair key=value, with keys in several cases,
\* a key inside a word, a key that is no secret, values with & and =, a value
\* that is the mask, no value; and the empty text.
SecretTexts ==
  { before \o key \o <<"=">> \o value \o after :
      before \in { <<>>, <<"u", "r", "l", ":", " ", "/", "x", "?", "i", "d", "=", "1", "&">>, <<"x", " ">> },
      key \in { <<"t", "o", "k", "e", "n">>, <<"K", "E", "Y">>, <<"S", "e", "c", "r", "e", "t">>, <<"p", "a", "s", "s", "w", "o", "r", "d">>, <<"m", "o", "n", "k", "e", "y">>, <<"u", "s", "e", "r">> },
      value \in { <<"a", "b", "c">>, <<>>, <<"a", "&", "b">>, <<"*", "*", "*">>, <<"a", "=", "b">> },
      after \in { <<>>, <<" ", "f", "a", "i", "l", "e", "d">>, <<"&", "k", "e", "y", "=", "v", "2">> } }
  \cup { <<>> }

\* Traces whose response holds a text with a pair key=value, as upper.
SecretBodies ==
  << PyStr(<<"t", "o", "k", "e", "n", "=", "a", "b", "c">>), PyStr(<<"x", " ", "P", "a", "s", "s", "w", "o", "r", "d", "=", "a", "b", "c", " ", "y">>), PyStr(<<"H", "E", "L", "L", "O">>) >>

\* Assertions on them: operator and args.
SecretAssertions ==
  << [operator |-> PyStr(<<"e", "q">>),
      args |-> PyDict(<< << <<"j", "s", "o", "n", "p", "a", "t", "h">>, PyStr(UpperPath) >>,
                         << <<"v", "a", "l", "u", "e">>, PyStr(<<"H", "E", "L", "L", "O">>) >> >>)],
     [operator |-> PyStr(<<"n", "e", "q">>),
      args |-> PyDict(<< << <<"j", "s", "o", "n", "p", "a", "t", "h">>, PyStr(UpperPath) >>,
                         << <<"v", "a", "l", "u", "e">>, PyStr(<<"H", "E", "L", "L", "O">>) >> >>)],
     [operator |-> PyStr(<<"c", "o", "n", "t", "a", "i", "n", "s">>),
      args |-> PyDict(<< << <<"j", "s", "o", "n", "p", "a", "t", "h">>, PyStr(UpperPath) >>,
                         << <<"v", "a", "l", "u", "e">>, PyStr(<<"z", "z", "z">>) >> >>)],
     [operator |-> PyStr(<<"b", "o", "d", "y", "C", "o", "n", "t", "a", "i", "n", "s">>),
      args |-> PyDict(<< << <<"j", "s", "o", "n", "p", "a", "t", "h">>, PyStr(UpperPath) >>,
                         << <<"c", "o", "n", "t", "a", "i", "n", "s">>, PyStr(<<"z", "z", "z">>) >> >>)],
     [operator |-> PyStr(<<"g", "t">>),
      args |-> PyDict(<< << <<"j", "s", "o", "n", "p", "a", "t", "h">>, PyStr(UpperPath) >>,
                         << <<"v", "a", "l", "u", "e">>, PyInt(1) >> >>)],
     [operator |-> PyStr(<<"s", "e", "c", "r", "e", "t", "=", "a", "b", "c">>), args |-> PyDict(<<>>)] >>

\* The except clause of test_run is about to log the text of an exception,
\* or eval_assertion is about to be called on a trace that holds a secret.
InitSecrets ==
  /\ \/ /\ pc = "log"
        /\ \E text \in SecretTexts : call = <<text>>
     \/ /\ pc = "eval"
        /\ \E a \in 1..Len(SecretAssertions), b \in 1..Len(SecretBodies) :
             call = << SecretAssertions[a].operator, SecretAssertions[a].args,
                       TraceOf(200, PyDict(<< << <<"u", "p", "p", "e", "r">>, SecretBodies[b] >> >>)) >>
  /\ returned = Unbound
  /\ invocations = <<>>
  /\ shared = <<>>
  /\ Idle

\* logging.exception("Execution error: %s", mask_secrets(str(e)))
LogExecutionError ==
  /\ pc = "log"
  /\ returned' = LogException(call[1])
  /\ pc' = "logged"
  /\ UNCHANGED <<invocations, shared, payload, env, wc, fp, ap, call, run, db_runs, db_artifacts, files,
                 use_n8n, wf, wf_id, trace, results, next, exit, response, n8n,
                 calls, cleanup, statuses, raised_by>>

NextSecrets == LogExecutionError \/ Evaluate

SpecSecrets == InitSecrets /\ [][NextSecrets]_vars

\* The run of value characters from position i on is the mask.
IsMask(text, i) ==
  /\ ValueEnd(text, i) = i + 3
  /\ \A j \in 0..2 : text[i + j] = "*"

\* The text shows a secret: a pair key=value whose key is token, key, secret
\* or password, in any case, and whose value is not the mask. The literal
\* parts of a message count as blanks.
ShowsSecret(text) ==
  \E i \in 1..Len(text) : \E k \in 1..Len(SecretKeys) :
    /\ KeyAt(text, i, SecretKeys[k])
    /\ ~IsMask(text, i + Len(SecretKeys[k]) + 1)

\* C27: no failure text that a run surfaces shows a secret: not the record
\* of the log (its message and its traceback), and not the message of an
\* AssertionResult, which is also the failure entry of the report.
C27_SurfacedTextsMasked ==
  /\ pc = "logged" =>
       ~ShowsSecret(returned.message) /\ ~ShowsSecret(returned.traceback)
  /\ pc = "evaluated" => ~ShowsSecret(returned.message)

\* What the code does for C27: the message of the log record is masked, with
\* the key names kept; nothing else is.
C27_LogMessageMasked ==
  pc = "logged" =>
    /\ returned.message = Lit("Execution error: ") \o mask_secrets(call[1])
    /\ ~ShowsSecret(returned.message)
    /\ returned.traceback = Lit("Traceback (most recent call last): ") \o call[1]

\* The message of a failed eq holds the secret of the response as it is.
C27_Witness ==
  /\ pc = "evaluated"
  /\ call[1].v = <<"e", "q">>
  /\ ~returned.passed
  /\ returned.message = <<"t", "o", "k", "e", "n", "=", "a", "b", "c">> \o Lit(" != ") \o <<"H", "E", "L", "L", "O">>

\* The message of the log record is masked and its traceback is not.
C27_WitnessLog ==
  /\ pc = "logged"
  /\ call[1] = <<"t", "o", "k", "e", "n", "=", "a", "b", "c", " ", "f", "a", "i", "l", "e", "d">>
  /\ returned.message = Lit("Execution error: ") \o <<"t", "o", "k", "e", "n", "=", "*", "*", "*", " ", "f", "a", "i", "l", "e", "d">>
  /\ ShowsSecret(returned.traceback)

\* ------------------------------------------------------------------- C29

\* delete_workflow was called: a DELETE was sent for wf_id.
DeleteCalled == cleanup \in {"deleted", "refused", "raised"}

\* Position k of calls is a request of the given kind.
IsCall(k, kind) == k \in 1..Len(calls) /\ calls[k][1] = kind

\* The execution of the n8n path failed: the try block raised once wf_id was
\* bound, at the fixture lookup or at the webhook call.
ExecutionFailed == use_n8n /\ wf_id # Unbound /\ trace = Unbound /\ statuses # <<>>
                     /\ statuses[Len(statuses)] = "FAIL"

\* C29: on the n8n path, once the run is ASSERTING delete_workflow has been
\* called, after the webhook call that gave the trace, and no workflow exists
\* on n8n any more; and once test_run is over after a failed execution,
\* delete_workflow has been called and the FAIL run was stored before.
C29_ReleaseOrdered ==
  /\ (use_n8n /\ WasAsserting) =>
       /\ \E i \in 1..Len(calls), j \in 1..Len(calls) :
            i < j /\ IsCall(i, "webhook") /\ IsCall(j, "delete")
       /\ n8n = {}
  /\ (ExecutionFailed /\ pc = "done") =>
       /\ DeleteCalled
       /\ IsCall(Len(calls), "delete")
       /\ db_runs.status = "FAIL"

\* What the code does for C29: the step that calls delete_workflow is taken
\* before test_run has answered, either with the trace built and the run not
\* yet ASSERTING, which it enters next, or with the run FAIL and the return
\* or the exception of the except clause pending; the FAIL run is stored at
\* that moment unless update_one raised.
C29_CallOrdered ==
  [][IsCall(Len(calls) + 1, "delete")' /\ Len(calls') = Len(calls) + 1 =>
       /\ pc = "finally" /\ response.kind = "none"
       /\ \/ /\ exit = "normal" /\ trace # Unbound
             /\ run.status = "EXECUTING" /\ ~WasAsserting
             /\ pc' = "asserting"
          \/ /\ exit = "return" /\ trace = Unbound
             /\ run.status = "FAIL" /\ db_runs = Document(run)
             /\ pc' = "done" /\ response' = [kind |-> "run", run |-> run]
          \/ /\ exit = "raise" /\ trace = Unbound
             /\ run.status = "FAIL" /\ db_runs.status = "QUEUED"
             /\ pc' = "done" /\ response'.kind = "exception"]_vars

\* The assertions are evaluated while the workflow is still on n8n: the
\* DELETE was refused.
C29_Witness ==
  /\ pc = "loop" /\ use_n8n
  /\ cleanup = "refused"
  /\ WorkflowId \in n8n
  /\ IsCall(Len(calls), "delete")

\* delete_workflow is called after a failed execution whose FAIL run was not
\* stored.
C29_WitnessNotStored ==
  /\ ExecutionFailed /\ pc = "done"
  /\ DeleteCalled
  /\ db_runs.status = "QUEUED"

\* The release in its order on a run that passes: create, webhook, delete,
\* then the assertions.
C29_WitnessOrdered ==
  /\ pc = "done" /\ use_n8n /\ run.status = "PASS" /\ run.results # <<>>
  /\ cleanup = "deleted" /\ n8n = {}
  /\ Len(calls) = 3
  /\ IsCall(1, "create") /\ IsCall(2, "webhook") /\ IsCall(3, "delete")

\* ------------------------------------------------------------------- two concurrent invocations

\* Two requests are served at once. Each invocation has its own locals; n8n
\* and db.runs are what they share. A step is one request to n8n, to the
\* webhook or to the database with the statements around it, so that the
\* interleavings are those of several workers, of which the interleavings of
\* one event loop (at the awaits only) are a part.
Invocations == {1, 2}

\* str(uuid.uuid4()): ids of nine characters, two of which agree on the
\* first eight.
Uuids ==
  { <<"a", "a", "a", "a", "a", "a", "a", "a", "1">>, <<"a", "a", "a", "a", "a", "a", "a", "a", "2">>, <<"b", "b", "b", "b", "b", "b", "b", "b", "1">> }

\* unique_path = f"avc-{run.id[:8]}", the path of the Webhook node and of the
\* URL of build_webhook_url.
unique_path(id) == <<"a", "v", "c", "-">> \o SubSeq(id, 1, 8)

\* The assertion packs of the two invocations: the designed one, and one
\* whose assertion fails on the uppercased message.
ConcurrentPacks == << DesignedAssertions, PackOf(1, <<2>>) >>

\* The id n8n gives the n-th workflow it creates, and the bodies it answers
\* the create request with: the workflow under its id, a workflow without
\* id, text that is no JSON.
CreatedId(n) == <<"w">> \o IntText(n)
CreatedBodies(id) ==
  << PyDict(<< << <<"i", "d">>, PyStr(id) >>, << <<"n", "a", "m", "e">>, PyStr(<<"A", "V", "C">>) >> >>),
     PyDict(<< << <<"n", "a", "m", "e">>, PyStr(<<"A", "V", "C">>) >> >>),
     NotJson >>

\* What n8n answers a create or delete request of the two invocations with.
ConcurrentAnswers == {Status(200), Status(500), NoResponse}

\* results of the for loop over the assertions of a pack on a trace.
ResultsOf(pack, tr) == [k \in 1..Len(pack) |-> LoopBody(pack[k], tr).v[1]]

\* The variables of one test_run on its own, which the steps of the two
\* invocations leave alone.
alone ==
  <<pc, payload, env, wc, fp, ap, call, returned, run, db_runs, db_artifacts,
    files, use_n8n, wf, wf_id, trace, results, next, exit, response, n8n,
    calls, cleanup, statuses, raised_by>>

\* Both invocations have looked up their contract and packs and created
\* their Run, each with its own uuid.
InitConcurrent ==
  /\ pc = "concurrent"
  /\ call = <<>>
  /\ returned = Unbound
  /\ Idle
  /\ \E id1 \in Uuids : \E id2 \in Uuids \ {id1} : \E asks \in [Invocations -> BOOLEAN] :
       invocations =
         [p \in Invocations |->
            [pc |-> "insert", id |-> IF p = 1 THEN id1 ELSE id2,
             payload_use_n8n |-> asks[p], use_n8n |-> FALSE,
             wf_id |-> Unbound, trace |-> Unbound, exit |-> "none",
             status |-> "QUEUED", results |-> <<>>,
             called |-> {}, deleted |-> {}]]
  /\ \E set \in BOOLEAN :
       shared = [env |-> set, n8n |-> {}, created |-> 0,
                 db_runs |-> [i \in Uuids |-> [status |-> "none", results |-> <<>>]]]

\* The workflows of n8n whose Webhook node has the path, and the one with the
\* id.
AtPath(path) == {w \in shared.n8n : w.path = path}
WithId(id) == {w \in shared.n8n : w.id = id}

\* db.runs.insert_one / update_one({"id": run.id}, {"$set": run.model_dump()})
Stored(id, status, rs) ==
  [shared EXCEPT !.db_runs[id] = [status |-> status, results |-> rs]]

\* An invocation goes on with its locals changed; an exception that nothing
\* catches ends it.
Goes(p, locals) == invocations' = [invocations EXCEPT ![p] = locals]
Ends(p) == [invocations[p] EXCEPT !.pc = "done", !.exit = "raise"]

\* insert_one of the QUEUED run, then run.status = "PROVISIONING" and use_n8n.
ConcurrentInsert(p) ==
  /\ invocations[p].pc = "insert"
  /\ \/ /\ shared' = Stored(invocations[p].id, "QUEUED", <<>>)
        /\ Goes(p, [invocations[p] EXCEPT
                      !.pc = "try", !.status = "PROVISIONING",
                      !.use_n8n = (invocations[p].payload_use_n8n /\ shared.env)])
     \/ /\ Goes(p, Ends(p))
        /\ UNCHANGED shared
  /\ UNCHANGED alone

\* create_workflow with the path of the run, and wf_id from its answer.
ConcurrentCreate(p) ==
  /\ invocations[p].pc = "try" /\ invocations[p].use_n8n
  /\ \E a \in ConcurrentAnswers, b \in 1..3 :
       LET id == CreatedId(shared.created + 1)
           r == create_workflow(a, a, CreatedBodies(id)[b])
       IN /\ shared' =
               IF Accepted(a, a)
                 THEN [shared EXCEPT
                         !.n8n = @ \cup {[id |-> id, path |-> unique_path(invocations[p].id),
                                          by |-> p]},
                         !.created = @ + 1]
                 ELSE shared
          /\ IF r.exc = "none" /\ ExtractWfId(r.v).exc = "none"
               THEN Goes(p, [invocations[p] EXCEPT
                               !.pc = "webhook", !.status = "EXECUTING",
                               !.wf_id = ExtractWfId(r.v).v])
               ELSE Goes(p, [invocations[p] EXCEPT !.pc = "except"])
  /\ UNCHANGED alone

\* requests.post(webhook_url, json=body): the request raises, or n8n runs a
\* workflow whose Webhook node has the path of the URL and answers with the
\* uppercased message, or has none and answers 404.
ConcurrentWebhook(p) ==
  /\ invocations[p].pc = "webhook"
  /\ \/ Goes(p, [invocations[p] EXCEPT !.pc = "except"])
     \/ \E w \in AtPath(unique_path(invocations[p].id)) :
          Goes(p, [invocations[p] EXCEPT
                     !.pc = "finally", !.exit = "normal",
                     !.trace = WebhookTrace(WebhookAnswers[2]),
                     !.called = @ \cup {w.by}])
     \/ /\ AtPath(unique_path(invocations[p].id)) = {}
        /\ Goes(p, [invocations[p] EXCEPT
                      !.pc = "finally", !.exit = "normal",
                      !.trace = WebhookTrace(WebhookAnswers[4])])
  /\ UNCHANGED <<shared, alone>>

\* The mock execution.
ConcurrentMock(p) ==
  /\ invocations[p].pc = "try" /\ ~invocations[p].use_n8n
  /\ Goes(p, [invocations[p] EXCEPT
                !.pc = "finally", !.exit = "normal", !.status = "EXECUTING",
                !.trace = MockTrace(FixturePacks[1]).v])
  /\ UNCHANGED <<shared, alone>>

\* except Exception: FAIL, update_one, return.
ConcurrentExcept(p) ==
  /\ invocations[p].pc = "except"
  /\ \/ /\ shared' = Stored(invocations[p].id, "FAIL", <<>>)
        /\ Goes(p, [invocations[p] EXCEPT
                      !.pc = "finally", !.status = "FAIL", !.exit = "return"])
     \/ /\ Goes(p, [invocations[p] EXCEPT
                      !.pc = "finally", !.status = "FAIL", !.exit = "raise"])
        /\ UNCHANGED shared
  /\ UNCHANGED alone

\* finally: delete_workflow(wf_id), which n8n carries out on the workflow
\* with that id, refuses, or does not answer.
ConcurrentFinally(p) ==
  /\ invocations[p].pc = "finally"
  /\ LET then == IF invocations[p].exit = "normal" THEN "asserting" ELSE "done"
     IN IF ~invocations[p].use_n8n \/ invocations[p].wf_id = Unbound
          THEN /\ Goes(p, [invocations[p] EXCEPT !.pc = then])
               /\ UNCHANGED shared
          ELSE \E a \in ConcurrentAnswers :
                 /\ Deleted(a, a) => WithId(invocations[p].wf_id.v) # {}
                 /\ shared' = IF Deleted(a, a)
                                THEN [shared EXCEPT !.n8n = @ \ WithId(invocations[p].wf_id.v)]
                                ELSE shared
                 /\ Goes(p, [invocations[p] EXCEPT
                               !.pc = then,
                               !.deleted = @ \cup {w.by : w \in WithId(invocations[p].wf_id.v)}])
  /\ UNCHANGED alone

\* ASSERTING, the for loop, the verdict, the report and update_one.
ConcurrentAssert(p) ==
  /\ invocations[p].pc = "asserting"
  /\ LET rs == ResultsOf(ConcurrentPacks[p], invocations[p].trace)
         status == IF AllPass(rs) THEN "PASS" ELSE "FAIL"
     IN \/ /\ shared' = Stored(invocations[p].id, status, rs)
           /\ Goes(p, [invocations[p] EXCEPT
                         !.pc = "done", !.exit = "return",
                         !.status = status, !.results = rs])
        \/ /\ Goes(p, [Ends(p) EXCEPT !.status = status, !.results = rs])
           /\ UNCHANGED shared
  /\ UNCHANGED alone

NextConcurrent ==
  \E p \in Invocations :
    \/ ConcurrentInsert(p)
    \/ ConcurrentCreate(p)
    \/ ConcurrentWebhook(p)
    \/ ConcurrentMock(p)
    \/ ConcurrentExcept(p)
    \/ ConcurrentFinally(p)
    \/ ConcurrentAssert(p)

SpecConcurrent == InitConcurrent /\ [][NextConcurrent]_vars

\* ------------------------------------------------------------------- C25

\* The invocation has called and deleted no workflow but its own.
OwnsTarget(p) ==
  /\ invocations[p].called \subseteq {p}
  /\ invocations[p].deleted \subseteq {p}

\* The status and the results of the invocation are those of its own pack
\* on its own trace, and the record of its run in db.runs is its own.
OwnOutcome(p) ==
  /\ (invocations[p].pc = "done" /\ invocations[p].trace # Unbound) =>
       /\ invocations[p].results = ResultsOf(ConcurrentPacks[p], invocations[p].trace)
       /\ invocations[p].status = IF AllPass(invocations[p].results) THEN "PASS" ELSE "FAIL"
  /\ (invocations[p].pc = "done" /\ invocations[p].exit = "return") =>
       shared.db_runs[invocations[p].id] =
         [status |-> invocations[p].status, results |-> invocations[p].results]
  /\ shared.db_runs[invocations[p].id].status \in {"none", "QUEUED", invocations[p].status}

\* C25: in every interleaving of two concurrent test_run invocations, each
\* calls and deletes only the workflow it created itself, and its status and
\* results are those of its own trace and assertion pack.
C25_OwnsTargetExclusively ==
  \A p \in Invocations : OwnsTarget(p) /\ OwnOutcome(p)

\* What the code does for C25: the claim holds of two runs whose ids differ
\* in their first eight characters; whatever the ids, an invocation deletes
\* no workflow but its own and its outcome is its own.
C25_OwnsTargetOnOwnPath ==
  /\ unique_path(invocations[1].id) # unique_path(invocations[2].id) =>
       \A p \in Invocations : OwnsTarget(p)
  /\ \A p \in Invocations : invocations[p].deleted \subseteq {p} /\ OwnOutcome(p)

\* The webhook call of the second invocation is answered by the workflow of
\* the first, which has the same path.
C25_Witness ==
  /\ invocations[1].id = <<"a", "a", "a", "a", "a", "a", "a", "a", "1">> /\ invocations[2].id = <<"a", "a", "a", "a", "a", "a", "a", "a", "2">>
  /\ invocations[2].called = {1}
  /\ invocations[2].pc = "done" /\ invocations[2].status = "FAIL"

\* Two runs on paths of their own, both workflows on n8n at once: each has
\* called and deleted its own, the first passes and the second fails.
C25_WitnessApart ==
  /\ unique_path(invocations[1].id) # unique_path(invocations[2].id)
  /\ shared.created = 2
  /\ \A p \in Invocations :
       /\ invocations[p].pc = "done"
       /\ invocations[p].called = {p} /\ invocations[p].deleted = {p}
  /\ invocations[1].status = "PASS" /\ invocations[2].status = "FAIL"
  /\ shared.db_runs[invocations[1].id].status = "PASS"
  /\ shared.db_runs[invocations[2].id].status = "FAIL"

\* Both workflows are on n8n while the first invocation has called its own
\* and the second is about to call.
C25_WitnessTogether ==
  /\ Cardinality(shared.n8n) = 2
  /\ invocations[1].pc = "finally" /\ invocations[1].called = {1}
  /\ invocations[2].pc = "webhook"

\* ------------------------------------------------------------------- C28

\* test_run with its scheduling: the event loop runs the handler to its end,
\* every await comes back or raises and every request has a timeout, so a
\* step that can be taken is taken.
SpecLive == Init /\ [][Next]_vars /\ WF_vars(Next)

\* C28: once test_run is over, the record of a run that was stored as QUEUED
\* holds PASS or FAIL, whichever step failed in between; and the status of
\* the record is only ever QUEUED, PASS or FAIL.
C28_TerminalStatusPersisted ==
  /\ db_runs.status \in {"none", "QUEUED", "PASS", "FAIL"}
  /\ (pc = "done" /\ db_runs.status # "none") => db_runs.status \in {"PASS", "FAIL"}

\* What the code does for C28: the status of the record is only ever QUEUED,
\* PASS or FAIL, and a run that test_run returns is stored with PASS or FAIL;
\* the record is left QUEUED exactly when an exception left test_run after
\* insert_one, from update_one or from the writing of the report.
C28_PersistedStatuses ==
  /\ db_runs.status \in {"none", "QUEUED", "PASS", "FAIL"}
  /\ (pc = "done" /\ db_runs.status = "QUEUED") =>
       /\ response.kind = "exception"
       /\ raised_by \in {"db.runs.update_one", "open"}
  /\ (pc = "done" /\ response.kind = "run") => db_runs.status \in {"PASS", "FAIL"}

\* How far test_run has come: every statement has its place.
Place ==
  CASE pc = "lookup" -> 0 [] pc = "create" -> 1 [] pc = "insert" -> 2
    [] pc = "provisioning" -> 3 [] pc = "try" -> 4 [] pc = "bind" -> 5
    [] pc \in {"webhook", "mock"} -> 6 [] pc = "except" -> 7
    [] pc = "finally" -> 8 [] pc = "asserting" -> 9 [] pc = "loop" -> 10
    [] pc = "junit" -> 11 [] pc = "persist" -> 12 [] pc = "artifact" -> 13
    [] pc = "return" -> 14 [] pc = "done" -> 15

\* test_run has no way back: every step takes it to a later place, or the
\* for loop to the next assertion of the pack, so that every invocation
\* comes to its end.
C28_EveryStepAdvances ==
  [][\/ Place' > Place
     \/ /\ pc = "loop" /\ pc' = "loop"
        /\ next <= Len(Assertions) /\ next' = next + 1]_vars

\* The report could not be written: the verdict is struck and the record is
\* left QUEUED.
C28_Witness ==
  /\ pc = "done"
  /\ raised_by = "open"
  /\ run.status \in {"PASS", "FAIL"}
  /\ db_runs.status = "QUEUED"

\* The release failed after a failed execution, and the record holds FAIL.
C28_WitnessStored ==
  /\ pc = "done"
  /\ cleanup = "raised" /\ trace = Unbound
  /\ db_runs.status = "FAIL"
  /\ response.kind = "run"

====
